---- MODULE Spec2Model ----
(***************************************************************************)
(* peek-api: the traffic classifier, the auth miner and the capture        *)
(* listener of lib/capture.js, the session loader, the request assembly    *)
(* and the response handler of lib/http.js, and the http subcommand of     *)
(* bin/cli.js around them.                                                 *)
(*                                                                         *)
(* Strings are TLA+ strings; the JavaScript string methods the code uses   *)
(* (includes, startsWith, indexOf, slice, trim, split, join, toLowerCase)  *)
(* are defined below on top of Len, SubSeq and \o.                         *)
(***************************************************************************)
EXTENDS Integers, Sequences, FiniteSets, TLC

VARIABLES
    \* --- isApiRequest applied to one (url, resourceType) input
    cUrl, cType, cPc, cResult,
    \* --- one capture session: the closure state of capture()
    capturedRequests, seenKeys, allAuthHeaders, allCookies,
    \* --- history of the capture session: every request event delivered to
    \*     the listener, in order
    events,
    \* --- loadSession applied to one session file
    sFile, sPc, sLoaded,
    \* --- one http() invocation, and the CLI process around it: its exit
    \*     code and what it wrote to stderr
    hOpts, hSession, hPc, hRequests, hRes, hStdout, hSaved, hError,
    hExit, hStderr,
    \* --- one pure function applied to one input
    fIn, fPc, fOut,
    \* --- one capture() run around the listener: its options, its position,
    \*     the pages it went to and how each ended, the browser, the groups
    \*     and the report it built, the files it wrote and the error it
    \*     was rejected with
    rOpts, rPc, rDomain, rOutputDir, rVisits, rOutcomes, rBrowser,
    rGrouped, rReport, rFiles, rError,
    \* --- two http() invocations in one process on one session file: the
    \*     PLATFORM_HEADERS object they share, and each one's options,
    \*     position, loaded session, request and response
    pTable, pFile, pOpts, pPc, pLoaded, pRequests, pRes

classifyVars == <<cUrl, cType, cPc, cResult>>
captureVars  == <<capturedRequests, seenKeys, allAuthHeaders, allCookies, events>>
sessionVars  == <<sFile, sPc, sLoaded>>
httpVars     == <<hOpts, hSession, hPc, hRequests, hRes, hStdout, hSaved, hError,
                 hExit, hStderr>>
pureVars     == <<fIn, fPc, fOut>>
runVars      == <<rOpts, rPc, rDomain, rOutputDir, rVisits, rOutcomes, rBrowser,
                 rGrouped, rReport, rFiles, rError>>
replayVars   == <<pTable, pFile, pOpts, pPc, pLoaded, pRequests, pRes>>
vars == <<classifyVars, captureVars, sessionVars, httpVars, pureVars, runVars, replayVars>>

----------------------------------------------------------------------------
(* JavaScript string methods *)

CharAt(s, i) == SubSeq(s, i, i)

\* s.slice(from) with a 0-based index
SliceFrom(s, from) == SubSeq(s, from + 1, Len(s))

\* s.slice(0, to) with a 0-based exclusive end
SliceTo(s, to) == SubSeq(s, 1, to)

StartsWith(s, p) == Len(p) <= Len(s) /\ SubSeq(s, 1, Len(p)) = p

EndsWith(s, p) == Len(p) <= Len(s) /\ SubSeq(s, Len(s) - Len(p) + 1, Len(s)) = p

Includes(s, p) == \E i \in 1..(Len(s) - Len(p) + 1) : SubSeq(s, i, i + Len(p) - 1) = p

\* s.indexOf(p): 0-based index of the first occurrence, -1 when there is none
IndexOf(s, p) ==
    IF Includes(s, p)
    THEN (CHOOSE i \in 1..(Len(s) - Len(p) + 1) :
            /\ SubSeq(s, i, i + Len(p) - 1) = p
            /\ \A j \in 1..(i - 1) : SubSeq(s, j, j + Len(p) - 1) # p) - 1
    ELSE -1

UpperChars == "ABCDEFGHIJKLMNOPQRSTUVWXYZ"
LowerChars == "abcdefghijklmnopqrstuvwxyz"

LowerChar(c) ==
    IF Includes(UpperChars, c) /\ Len(c) = 1
    THEN CharAt(LowerChars, IndexOf(UpperChars, c) + 1)
    ELSE c

RECURSIVE ToLowerCase(_)
ToLowerCase(s) ==
    IF s = "" THEN ""
    ELSE LowerChar(CharAt(s, 1)) \o ToLowerCase(SliceFrom(s, 1))

IsSpace(c) == c \in {" ", "\t", "\n", "\r"}

RECURSIVE TrimStart(_)
TrimStart(s) ==
    IF s # "" /\ IsSpace(CharAt(s, 1)) THEN TrimStart(SliceFrom(s, 1)) ELSE s

RECURSIVE TrimEnd(_)
TrimEnd(s) ==
    IF s # "" /\ IsSpace(CharAt(s, Len(s))) THEN TrimEnd(SliceTo(s, Len(s) - 1)) ELSE s

Trim(s) == TrimEnd(TrimStart(s))

\* s.split(sep) for a non-empty separator: always at least one piece
RECURSIVE Split(_, _)
Split(s, sep) ==
    LET i == IndexOf(s, sep)
    IN  IF i = -1 THEN <<s>>
        ELSE <<SliceTo(s, i)>> \o Split(SliceFrom(s, i + Len(sep)), sep)

\* pieces.join(sep)
RECURSIVE Join(_, _)
Join(pieces, sep) ==
    IF pieces = <<>> THEN ""
    ELSE IF Len(pieces) = 1 THEN pieces[1]
    ELSE pieces[1] \o sep \o Join(Tail(pieces), sep)

----------------------------------------------------------------------------
(* JSON.parse and JSON.stringify(value, null, 2) on the JSON texts made of *)
(* objects, arrays, strings without escapes, non-negative integers, true,  *)
(* false and null, with blanks between tokens.  A parsed value is a tagged *)
(* record; an object is the sequence of its <<key, value>> members.        *)

Digits == "0123456789"

IsDigit(c) == Len(c) = 1 /\ Includes(Digits, c)

JsonFail == [ok |-> FALSE]

JsonOk(value, rest) == [ok |-> TRUE, value |-> value, rest |-> rest]

\* length of the run of digits at the start of s
RECURSIVE DigitRun(_)
DigitRun(s) == IF s # "" /\ IsDigit(CharAt(s, 1)) THEN 1 + DigitRun(SliceFrom(s, 1)) ELSE 0

JsonNumber(s) ==
    LET n == DigitRun(s)
    IN  IF n = 0 \/ (n > 1 /\ CharAt(s, 1) = "0") THEN JsonFail
        ELSE IF n < Len(s) /\ CharAt(s, n + 1) \in {".", "e", "E"} THEN JsonFail
        ELSE JsonOk([t |-> "num", v |-> SliceTo(s, n)], SliceFrom(s, n))

\* s starts with the opening quote
JsonString(s) ==
    LET close == IndexOf(SliceFrom(s, 1), "\"")
    IN  IF close = -1 THEN JsonFail
        ELSE JsonOk([t |-> "str", v |-> SubSeq(s, 2, close + 1)], SliceFrom(s, close + 2))

RECURSIVE JsonValue(_), JsonElements(_, _), JsonMembers(_, _)

\* the elements of an array after "[" or after ",": s starts at an element
JsonElements(s, acc) ==
    LET e == JsonValue(s)
    IN  IF ~e.ok THEN JsonFail
        ELSE LET r == TrimStart(e.rest)
             IN  IF StartsWith(r, ",") THEN JsonElements(SliceFrom(r, 1), Append(acc, e.value))
                 ELSE IF StartsWith(r, "]")
                      THEN JsonOk([t |-> "arr", v |-> Append(acc, e.value)], SliceFrom(r, 1))
                 ELSE JsonFail

\* the members of an object after "{" or after ",": s starts at a key
JsonMembers(s, acc) ==
    LET t == TrimStart(s)
        k == IF StartsWith(t, "\"") THEN JsonString(t) ELSE JsonFail
    IN  IF ~k.ok THEN JsonFail
        ELSE LET c == TrimStart(k.rest)
                 e == IF StartsWith(c, ":") THEN JsonValue(SliceFrom(c, 1)) ELSE JsonFail
             IN  IF ~e.ok THEN JsonFail
                 ELSE LET r   == TrimStart(e.rest)
                          mem == Append(acc, <<k.value.v, e.value>>)
                      IN  IF StartsWith(r, ",") THEN JsonMembers(SliceFrom(r, 1), mem)
                          ELSE IF StartsWith(r, "}")
                               THEN JsonOk([t |-> "obj", v |-> mem], SliceFrom(r, 1))
                          ELSE JsonFail

JsonValue(s) ==
    LET t == TrimStart(s)
    IN  IF StartsWith(t, "true") THEN JsonOk([t |-> "lit", v |-> "true"], SliceFrom(t, 4))
        ELSE IF StartsWith(t, "false") THEN JsonOk([t |-> "lit", v |-> "false"], SliceFrom(t, 5))
        ELSE IF StartsWith(t, "null") THEN JsonOk([t |-> "lit", v |-> "null"], SliceFrom(t, 4))
        ELSE IF StartsWith(t, "\"") THEN JsonString(t)
        ELSE IF StartsWith(t, "[")
             THEN IF StartsWith(TrimStart(SliceFrom(t, 1)), "]")
                  THEN JsonOk([t |-> "arr", v |-> <<>>],
                              SliceFrom(TrimStart(SliceFrom(t, 1)), 1))
                  ELSE JsonElements(SliceFrom(t, 1), <<>>)
        ELSE IF StartsWith(t, "{")
             THEN IF StartsWith(TrimStart(SliceFrom(t, 1)), "}")
                  THEN JsonOk([t |-> "obj", v |-> <<>>],
                              SliceFrom(TrimStart(SliceFrom(t, 1)), 1))
                  ELSE JsonMembers(SliceFrom(t, 1), <<>>)
        ELSE JsonNumber(t)

\* JSON.parse(text): ok is FALSE where JSON.parse throws a SyntaxError
JsonParse(text) ==
    LET r == JsonValue(text)
    IN  IF r.ok /\ TrimStart(r.rest) = "" THEN r ELSE JsonFail

RECURSIVE Spaces(_)
Spaces(n) == IF n = 0 THEN "" ELSE " " \o Spaces(n - 1)

RECURSIVE JsonStringify(_, _), JsonStringifyItems(_, _, _)

\* the items of an array (isObject FALSE) or the members of an object, one
\* per line at the given indentation
JsonStringifyItems(items, indent, isObject) ==
    IF items = <<>> THEN ""
    ELSE LET item == Head(items)
             text == IF isObject
                     THEN "\"" \o item[1] \o "\": " \o JsonStringify(item[2], indent)
                     ELSE JsonStringify(item, indent)
         IN  Spaces(indent) \o text
             \o (IF Len(items) > 1 THEN ",\n" ELSE "\n")
             \o JsonStringifyItems(Tail(items), indent, isObject)

\* JSON.stringify(value, null, 2) of a value that starts at column indent
JsonStringify(value, indent) ==
    IF value.t = "str" THEN "\"" \o value.v \o "\""
    ELSE IF value.t = "arr"
         THEN IF value.v = <<>> THEN "[]"
              ELSE "[\n" \o JsonStringifyItems(value.v, indent + 2, FALSE) \o Spaces(indent) \o "]"
    ELSE IF value.t = "obj"
         THEN IF value.v = <<>> THEN "{}"
              ELSE "{\n" \o JsonStringifyItems(value.v, indent + 2, TRUE) \o Spaces(indent) \o "}"
    ELSE value.v

----------------------------------------------------------------------------
(* new URL(u): the parts the code reads.  Request URLs are the serialized  *)
(* absolute URLs the browser reports: scheme://host[:port]/path[?query].   *)

AfterScheme(u) == SliceFrom(u, IndexOf(u, "://") + 3)

\* index (0-based, in AfterScheme) where the authority ends
AuthorityEnd(u) ==
    LET r == AfterScheme(u)
        s == IndexOf(r, "/")
        q == IndexOf(r, "?")
    IN  IF s = -1 /\ q = -1 THEN Len(r)
        ELSE IF s = -1 THEN q
        ELSE IF q = -1 THEN s
        ELSE IF s < q THEN s ELSE q

UrlHost(u) == SliceTo(AfterScheme(u), AuthorityEnd(u))

\* URL.hostname: the host without the port, lower-cased
UrlHostname(u) ==
    LET h == UrlHost(u)
        c == IndexOf(h, ":")
    IN  ToLowerCase(IF c = -1 THEN h ELSE SliceTo(h, c))

UrlPathAndSearch(u) == SliceFrom(AfterScheme(u), AuthorityEnd(u))

\* URL.pathname: "/" when the URL has no path
UrlPathname(u) ==
    LET r == UrlPathAndSearch(u)
        q == IndexOf(r, "?")
        p == IF q = -1 THEN r ELSE SliceTo(r, q)
    IN  IF p = "" THEN "/" ELSE p

\* URL.search: "" or "?..." ("" for a bare "?")
UrlSearch(u) ==
    LET r == UrlPathAndSearch(u)
        q == IndexOf(r, "?")
    IN  IF q = -1 \/ q = Len(r) - 1 THEN "" ELSE SliceFrom(r, q)

----------------------------------------------------------------------------
(* lib/capture.js: isApiRequest *)

SkipExtensionList ==
    {"js", "css", "png", "jpg", "jpeg", "gif", "svg", "ico", "woff", "woff2",
     "ttf", "eot", "map", "webp", "avif", "mp4", "webm", "mp3"}

SkipDomainList ==
    {"google-analytics", "googletagmanager", "doubleclick", "facebook.com/tr",
     "bat.bing", "analytics.google", "hotjar", "segment.io", "mixpanel",
     "amplitude", "sentry.io", "datadoghq"}

\* /\.(js|css|...)(\?|$)/i .test(s)
SKIP_EXTENSIONS(s) ==
    LET l == ToLowerCase(s)
    IN  \E e \in SkipExtensionList :
            \/ Includes(l, "." \o e \o "?")
            \/ EndsWith(l, "." \o e)

\* /google-analytics|...|datadoghq/i .test(s)
SKIP_DOMAINS(s) ==
    LET l == ToLowerCase(s)
    IN  \E d \in SkipDomainList : Includes(l, d)

\* isApiRequest with the resource-type rule tried before the two skip rules
isApiRequest_AcceptFirst(url, resourceType) ==
    IF resourceType = "xhr" \/ resourceType = "fetch" THEN TRUE
    ELSE IF SKIP_EXTENSIONS(url) THEN FALSE
    ELSE IF SKIP_DOMAINS(url) THEN FALSE
    ELSE IF Includes(url, "/api/") \/ Includes(url, "/graphql") \/ Includes(url, "/rest/")
         THEN TRUE
    ELSE FALSE

isApiRequest(url, resourceType) ==
    IF SKIP_EXTENSIONS(url) THEN FALSE
    ELSE IF SKIP_DOMAINS(url) THEN FALSE
    ELSE IF resourceType = "xhr" \/ resourceType = "fetch" THEN TRUE
    ELSE IF Includes(url, "/api/") \/ Includes(url, "/graphql") \/ Includes(url, "/rest/")
         THEN TRUE
    ELSE FALSE

----------------------------------------------------------------------------
(* JavaScript objects used as string-keyed maps *)

EmptyMap == <<>>

\* m[k] = v
Put(m, k, v) == [x \in (DOMAIN m) \cup {k} |-> IF x = k THEN v ELSE m[x]]

\* Object.assign with the arguments' priority swapped: existing keys are kept
ObjectAssign_KeepTarget(target, source) ==
    [x \in (DOMAIN target) \cup (DOMAIN source) |->
        IF x \in DOMAIN target THEN target[x] ELSE source[x]]

\* Object.assign(target, source)
ObjectAssign(target, source) ==
    [x \in (DOMAIN target) \cup (DOMAIN source) |->
        IF x \in DOMAIN source THEN source[x] ELSE target[x]]

----------------------------------------------------------------------------
(* lib/capture.js: extractAuth.  A header mapping is the sequence of its   *)
(* <<name, value>> entries in Object.entries order.                        *)

\* the prefixes without the Twitter one
PlatformPrefixes_NoTwitter == {"x-li-", "x-restli", "x-ig-", "x-fb-"}

PlatformPrefixes == {"x-li-", "x-restli", "x-ig-", "x-fb-", "x-tw-"}

\* every rule writing under the lower-cased name
AuthHeaderKeys_LowerCased(key) ==
    LET lk == ToLowerCase(key)
    IN  (IF lk = "authorization" THEN {"Authorization"} ELSE {})
        \cup (IF lk = "x-api-key" \/ lk = "apikey" THEN {lk} ELSE {})
        \cup (IF Includes(lk, "csrf") \/ Includes(lk, "xsrf") THEN {lk} ELSE {})
        \cup (IF Includes(lk, "token") /\ ~Includes(lk, "content") THEN {lk} ELSE {})
        \cup (IF \E p \in PlatformPrefixes : StartsWith(lk, p) THEN {lk} ELSE {})

\* the keys of auth.headers that one header entry is written to
AuthHeaderKeys(key) ==
    LET lk == ToLowerCase(key)
    IN  (IF lk = "authorization" THEN {"Authorization"} ELSE {})
        \cup (IF lk = "x-api-key" \/ lk = "apikey" THEN {key} ELSE {})
        \cup (IF Includes(lk, "csrf") \/ Includes(lk, "xsrf") THEN {key} ELSE {})
        \cup (IF Includes(lk, "token") /\ ~Includes(lk, "content") THEN {key} ELSE {})
        \cup (IF \E p \in PlatformPrefixes : StartsWith(lk, p) THEN {key} ELSE {})

\* value.split(';').forEach(c => { ... auth.cookies[name.trim()] = ... })
RECURSIVE ParseCookieSegments(_, _)
ParseCookieSegments(segments, cookies) ==
    IF segments = <<>> THEN cookies
    ELSE LET parts == Split(Trim(Head(segments)), "=")
             name  == Head(parts)
             rest  == Tail(parts)
         IN  ParseCookieSegments(Tail(segments),
                 IF name # ""
                 THEN Put(cookies, Trim(name), Trim(Join(rest, "=")))
                 ELSE cookies)

RECURSIVE ExtractAuthLoop(_, _)
ExtractAuthLoop(entries, auth) ==
    IF entries = <<>> THEN auth
    ELSE LET key   == Head(entries)[1]
             value == Head(entries)[2]
             hs    == [x \in (DOMAIN auth.headers) \cup AuthHeaderKeys(key) |->
                         IF x \in AuthHeaderKeys(key) THEN value ELSE auth.headers[x]]
             cs    == IF ToLowerCase(key) = "cookie"
                      THEN ParseCookieSegments(Split(value, ";"), auth.cookies)
                      ELSE auth.cookies
         IN  ExtractAuthLoop(Tail(entries), [headers |-> hs, cookies |-> cs])

extractAuth(headers) == ExtractAuthLoop(headers, [headers |-> EmptyMap, cookies |-> EmptyMap])

----------------------------------------------------------------------------
(* lib/capture.js: the page.on('request') listener of capture() *)

\* Object.fromEntries(parsed.searchParams), for queries without escapes
RECURSIVE ParamsOf(_, _)
ParamsOf(pairs, params) ==
    IF pairs = <<>> THEN params
    ELSE LET p  == Head(pairs)
             eq == IndexOf(p, "=")
         IN  ParamsOf(Tail(pairs),
                 IF p = "" THEN params
                 ELSE IF eq = -1 THEN Put(params, p, "")
                 ELSE Put(params, SliceTo(p, eq), SliceFrom(p, eq + 1)))

SearchParams(u) ==
    LET s == UrlSearch(u)
    IN  IF s = "" THEN EmptyMap ELSE ParamsOf(Split(SliceFrom(s, 1), "&"), EmptyMap)

\* a key that also carries the query string
RequestKey_WithSearch(request) ==
    request.method \o " " \o UrlPathname(request.url) \o UrlSearch(request.url)

\* const key = `${method} ${pathname}`
RequestKey(request) == request.method \o " " \o UrlPathname(request.url)

\* the entry pushed to capturedRequests; a field whose value is undefined
\* (or deleted) is absent from the record
CapturedEntry(request, auth, now) ==
    LET params == SearchParams(request.url)
    IN  [method       |-> request.method,
         url          |-> request.url,
         path         |-> UrlPathname(request.url),
         host         |-> UrlHostname(request.url),
         resourceType |-> request.resourceType,
         timestamp    |-> now]
        @@ (IF DOMAIN params # {} THEN [params |-> params] ELSE EmptyMap)
        @@ (IF DOMAIN auth.headers # {} THEN [headers |-> auth.headers] ELSE EmptyMap)
        @@ (IF request.postData # "" THEN [postData |-> request.postData] ELSE EmptyMap)

\* the loop of dedupEndpoints: seen is the set of keys of the Map
RECURSIVE DedupLoop(_, _, _)
DedupLoop(endpoints, seen, result) ==
    IF endpoints = <<>> THEN result
    ELSE LET endpoint == Head(endpoints)
             key      == endpoint.method \o ":" \o UrlPathname(endpoint.url)
         IN  IF key \notin seen
             THEN DedupLoop(Tail(endpoints), seen \cup {key}, Append(result, endpoint))
             ELSE DedupLoop(Tail(endpoints), seen, result)

RECURSIVE DedupLoop_ByHref(_, _, _)
DedupLoop_ByHref(endpoints, seen, result) ==
    IF endpoints = <<>> THEN result
    ELSE LET endpoint == Head(endpoints)
             key      == endpoint.method \o ":" \o endpoint.url
         IN  IF key \notin seen
             THEN DedupLoop_ByHref(Tail(endpoints), seen \cup {key}, Append(result, endpoint))
             ELSE DedupLoop_ByHref(Tail(endpoints), seen, result)

\* dedupEndpoints keyed by the method and the whole URL
dedupEndpoints_ByHref(endpoints) == DedupLoop_ByHref(endpoints, {}, <<>>)

dedupEndpoints(endpoints) == DedupLoop(endpoints, {}, <<>>)

\* the requests the listener pushes when it is handed requests that all
\* pass isApiRequest, in order: the seenKeys test and insertion
RECURSIVE ListenerLoop(_, _, _)
ListenerLoop(requests, seen, kept) ==
    IF requests = <<>> THEN kept
    ELSE LET request == Head(requests)
         IN  IF RequestKey(request) \in seen
             THEN ListenerLoop(Tail(requests), seen, kept)
             ELSE ListenerLoop(Tail(requests), seen \cup {RequestKey(request)},
                               Append(kept, request))

----------------------------------------------------------------------------
(* lib/capture.js: capture(), the domain, the additional pages, the groups *)
(* and the report                                                          *)

\* String.prototype.replace with a string pattern: the first occurrence
ReplaceFirst(s, pattern, by) ==
    LET i == IndexOf(s, pattern)
    IN  IF i = -1 THEN s ELSE SliceTo(s, i) \o by \o SliceFrom(s, i + Len(pattern))

\* const domain = parsedUrl.hostname.replace('www.', '')
DomainOf(url) == ReplaceFirst(UrlHostname(url), "www.", "")

\* customOutputDir || `peek-api-${domain}`
OutputDirOf(opts, domain) ==
    IF opts.outputDir # "" THEN opts.outputDir ELSE "peek-api-" \o domain

\* URL.origin
UrlOrigin(u) == SliceTo(u, IndexOf(u, "://") + 3) \o ToLowerCase(UrlHost(u))

\* pagePath.startsWith('http') ? pagePath : `${parsedUrl.origin}${pagePath}`
PageUrl(opts, pagePath) ==
    IF StartsWith(pagePath, "http") THEN pagePath ELSE UrlOrigin(opts.url) \o pagePath

\* req.path.split('/').filter(Boolean)
PathParts(path) == SelectSeq(Split(path, "/"), LAMBDA x : x # "")

\* the base path made of the first two segments
BasePath_TwoSegments(path) ==
    LET parts == PathParts(path)
    IN  "/" \o Join(SubSeq(parts, 1, IF Len(parts) < 2 THEN Len(parts) ELSE 2), "/")

\* '/' + parts.slice(0, Math.min(parts.length, 3)).join('/')
BasePath(path) ==
    LET parts == PathParts(path)
    IN  "/" \o Join(SubSeq(parts, 1, IF Len(parts) < 3 THEN Len(parts) ELSE 3), "/")

\* for (const req of capturedRequests) { ... grouped[basePath].push(req) }
RECURSIVE GroupLoop(_, _)
GroupLoop(reqs, grouped) ==
    IF reqs = <<>> THEN grouped
    ELSE LET basePath == BasePath(Head(reqs).path)
             group    == IF basePath \in DOMAIN grouped THEN grouped[basePath] ELSE <<>>
         IN  GroupLoop(Tail(reqs), Put(grouped, basePath, Append(group, Head(reqs))))

\* the ASCII characters a URL path or "[object Object]" can hold, in code
\* order
AsciiTable ==
    " !$%&'()*+,-./0123456789:;=@ABCDEFGHIJKLMNOPQRSTUVWXYZ[]_abcdefghijklmnopqrstuvwxyz~"

CodeOf(c) == CHOOSE i \in 1..Len(AsciiTable) : CharAt(AsciiTable, i) = c

\* a < b by code units, as the default sort comparator compares strings
RECURSIVE StringLess(_, _)
StringLess(a, b) ==
    IF b = "" THEN FALSE
    ELSE IF a = "" THEN TRUE
    ELSE IF CharAt(a, 1) = CharAt(b, 1) THEN StringLess(SliceFrom(a, 1), SliceFrom(b, 1))
    ELSE CodeOf(CharAt(a, 1)) < CodeOf(CharAt(b, 1))

\* String([basePath, reqs]): the key, then one "[object Object]" per request
EntryString(basePath, reqs) ==
    basePath \o "," \o Join([i \in 1..Len(reqs) |-> "[object Object]"], ",")

\* Object.entries(grouped).sort(): the keys in the order of the sorted
\* entries; sort() without a comparator compares the entries as strings
RECURSIVE SortedEntryKeys(_, _)
SortedEntryKeys(grouped, keys) ==
    IF keys = {} THEN <<>>
    ELSE LET first == CHOOSE k \in keys :
                          \A o \in keys \ {k} :
                              StringLess(EntryString(k, grouped[k]), EntryString(o, grouped[o]))
         IN  <<first>> \o SortedEntryKeys(grouped, keys \ {first})

\* the "### basePath" sections of CAPTURE.md with their endpoint lines
ReportSections(grouped) ==
    LET keys == SortedEntryKeys(grouped, DOMAIN grouped)
    IN  [i \in 1..Len(keys) |->
            [basePath |-> keys[i],
             items    |-> [j \in 1..Len(grouped[keys[i]]) |->
                              grouped[keys[i]][j].method \o " " \o grouped[keys[i]][j].path]]]

\* the three files written to outputDir
OutputFiles(outputDir, domain, report, authHeaders, cookies, requests) ==
    (outputDir \o "/CAPTURE.md") :> report
    @@ (outputDir \o "/auth.json") :> [domain |-> domain, headers |-> authHeaders,
                                       cookies |-> cookies]
    @@ (outputDir \o "/endpoints.json") :> requests

----------------------------------------------------------------------------
(* lib/http.js: session loading and header sources *)

\* Object.entries(PLATFORM_HEADERS)
PLATFORM_HEADERS ==
    << <<"instagram.com",
         Put(Put(EmptyMap, "X-IG-App-ID", "936619743392459"),
             "X-Requested-With", "XMLHttpRequest")>> >>

DEFAULT_USER_AGENT ==
    "Mozilla/5.0 (Macintosh; Intel Mac OS X 10_15_7) AppleWebKit/537.36 (KHTML, like Gecko) Chrome/131.0.0.0 Safari/537.36"

\* A session file is missing ("missing"), is not JSON text ("garbage"), or
\* holds JSON text.  JSON text is one of:
\*   "json"       an object whose cookies field is absent or an array; the
\*                object's fields are the fields of the record file.json
\*   "value"      a top-level value that is not an object; file.type is
\*                number, string, boolean, array or null
\*   "oddcookies" an object whose cookies field is not an array; file.type is
\*                the field's type and file.truthy its JavaScript truthiness
\* fs.readFileSync or JSON.parse throws, or reading .cookies of null throws,
\* or cookies.map is not a function
LoadSessionThrows(file) ==
    \/ file.kind \in {"missing", "garbage"}
    \/ file.kind = "value" /\ file.type = "null"
    \/ file.kind = "oddcookies" /\ file.truthy

\* err.message of what loadSession throws
LoadSessionError(file) ==
    CASE file.kind = "missing"    -> "ENOENT: no such file or directory"
      [] file.kind = "garbage"    -> "Unexpected token in JSON"
      [] file.kind = "value"      -> "Cannot read properties of null (reading 'cookies')"
      [] file.kind = "oddcookies" -> "cookies.map is not a function"

\* the parsed value as loadSession reads it: a value that is not an object
\* has no cookies field, and `session.cookies || []` replaces a falsy field
SessionView(file) == IF file.kind = "json" THEN file.json ELSE EmptyMap

\* cookies.map(c => `${c.name}=${c.value}`)
CookiePairs(cookies) == [i \in 1..Len(cookies) |-> cookies[i].name \o "=" \o cookies[i].value]

\* for (const c of cookies) { csrf[...] = c.value }
RECURSIVE CsrfLoop(_, _)
CsrfLoop(cookies, csrf) ==
    IF cookies = <<>> THEN csrf
    ELSE LET c  == Head(cookies)
             c1 == IF c.name = "csrftoken" THEN Put(csrf, "X-CSRFToken", c.value) ELSE csrf
             c2 == IF c.name = "JSESSIONID" THEN Put(c1, "csrf-token", c.value) ELSE c1
         IN  CsrfLoop(Tail(cookies), c2)

\* cookies.find(c => c.name === name): <<>> when there is none
FindCookie(cookies, name) ==
    IF \E i \in 1..Len(cookies) : cookies[i].name = name
    THEN <<cookies[CHOOSE i \in 1..Len(cookies) :
                /\ cookies[i].name = name
                /\ \A j \in 1..(i - 1) : cookies[j].name # name]>>
    ELSE <<>>

\* cookieStr with the pairs joined by ";" alone
loadSession_JoinNoSpace(session) ==
    LET cookies == IF "cookies" \in DOMAIN session THEN session.cookies ELSE <<>>
    IN  [cookies   |-> cookies,
         cookieStr |-> Join(CookiePairs(cookies), ";"),
         csrf      |-> CsrfLoop(cookies, EmptyMap),
         wwwClaim  |-> FindCookie(cookies, "x-ig-www-claim"),
         session   |-> session]

\* loadSession applied to the parsed session object; wwwClaim is <<>> for
\* undefined and <<cookie>> otherwise
loadSession(session) ==
    LET cookies == IF "cookies" \in DOMAIN session THEN session.cookies ELSE <<>>
    IN  [cookies   |-> cookies,
         cookieStr |-> Join(CookiePairs(cookies), "; "),
         csrf      |-> CsrfLoop(cookies, EmptyMap),
         wwwClaim  |-> FindCookie(cookies, "x-ig-www-claim"),
         session   |-> session]

RECURSIVE DetectPlatformIn(_, _)
DetectPlatformIn(table, hostname) ==
    IF table = <<>> THEN EmptyMap
    ELSE IF Includes(hostname, Head(table)[1]) THEN Head(table)[2]
    ELSE DetectPlatformIn(Tail(table), hostname)

detectPlatform(hostname) == DetectPlatformIn(PLATFORM_HEADERS, hostname)

RECURSIVE ParseCustomHeadersLoop(_, _)
ParseCustomHeadersLoop(headerStrings, headers) ==
    IF headerStrings = <<>> THEN headers
    ELSE LET h        == Head(headerStrings)
             colonIdx == IndexOf(h, ":")
         IN  ParseCustomHeadersLoop(Tail(headerStrings),
                 IF colonIdx = -1 THEN headers
                 ELSE Put(headers, Trim(SliceTo(h, colonIdx)), Trim(SliceFrom(h, colonIdx + 1))))

\* the loop taking the value from between the first and the second colon
RECURSIVE ParseCustomHeadersLoop_SplitAll(_, _)
ParseCustomHeadersLoop_SplitAll(headerStrings, headers) ==
    IF headerStrings = <<>> THEN headers
    ELSE LET pieces == Split(Head(headerStrings), ":")
         IN  ParseCustomHeadersLoop_SplitAll(Tail(headerStrings),
                 IF Len(pieces) = 1 THEN headers
                 ELSE Put(headers, Trim(pieces[1]), Trim(pieces[2])))

parseCustomHeaders_SplitAll(headerStrings) ==
    ParseCustomHeadersLoop_SplitAll(headerStrings, EmptyMap)

parseCustomHeaders(headerStrings) == ParseCustomHeadersLoop(headerStrings, EmptyMap)

\* formatJson with a catch block that returns nothing
formatJson_DropUnparsed(data) ==
    LET parsed == JsonParse(data)
    IN  IF parsed.ok THEN JsonStringify(parsed.value, 0) ELSE ""

formatJson(data) ==
    LET parsed == JsonParse(data)
    IN  IF parsed.ok THEN JsonStringify(parsed.value, 0) ELSE data

----------------------------------------------------------------------------
(* lib/http.js: http(), from the options to the request that is sent *)

\* the files --data-file can name
DataFiles == [p \in {"body.json", "empty.txt"} |-> IF p = "body.json" THEN "[1, 2]" ELSE ""]

\* the object literal: Cookie, User-Agent, Accept, Accept-Language
BaseHeaders(opts, loaded) ==
    Put(Put(Put(Put(EmptyMap,
        "Cookie", loaded.cookieStr),
        "User-Agent", IF opts.userAgent # "" THEN opts.userAgent ELSE DEFAULT_USER_AGENT),
        "Accept", "application/json, text/plain, */*"),
        "Accept-Language", "en-US,en;q=0.9")

\* requestHeaders after the spreads and the www-claim assignment, read from
\* the PLATFORM_HEADERS object as it is at the time of the call
AssembleHeadersFrom(table, opts, loaded) ==
    LET hostname == UrlHostname(opts.url)
        spread   == ObjectAssign(ObjectAssign(ObjectAssign(BaseHeaders(opts, loaded),
                        loaded.csrf),
                        DetectPlatformIn(table, hostname)),
                        parseCustomHeaders(opts.headers))
    IN  IF loaded.wwwClaim # <<>> /\ Includes(hostname, "instagram.com")
        THEN Put(spread, "X-IG-WWW-Claim", loaded.wwwClaim[1].value)
        ELSE spread

\* the header layers with the platform headers spread after the custom ones
AssembleHeaders_PlatformLast(opts, loaded) ==
    LET hostname == UrlHostname(opts.url)
        spread   == ObjectAssign(ObjectAssign(ObjectAssign(BaseHeaders(opts, loaded),
                        loaded.csrf),
                        parseCustomHeaders(opts.headers)),
                        detectPlatform(hostname))
    IN  IF loaded.wwwClaim # <<>> /\ Includes(hostname, "instagram.com")
        THEN Put(spread, "X-IG-WWW-Claim", loaded.wwwClaim[1].value)
        ELSE spread

\* requestHeaders of an invocation that finds PLATFORM_HEADERS as declared
AssembleHeaders(opts, loaded) == AssembleHeadersFrom(PLATFORM_HEADERS, opts, loaded)

\* let body = null; if (data) ... else if (dataFile) ...: "" stands for a
\* body that is null or empty, which the code does not tell apart
RequestBody(opts) ==
    IF opts.data # "" THEN opts.data
    ELSE IF opts.dataFile # "" THEN DataFiles[opts.dataFile]
    ELSE ""

\* a header value is truthy when it is set and not the empty string
Truthy(headers, key) == key \in DOMAIN headers /\ headers[key] # ""

\* if (body && !requestHeaders['Content-Type']) { ... }
WithContentType(headers, body) ==
    IF body # "" /\ ~Truthy(headers, "Content-Type")
    THEN Put(headers, "Content-Type",
             IF JsonParse(body).ok THEN "application/json"
             ELSE "application/x-www-form-urlencoded")
    ELSE headers

\* reqOptions and the body written to the request, around the given
\* requestHeaders
RequestOf(opts, headers) ==
    LET body == RequestBody(opts)
    IN  [hostname |-> UrlHostname(opts.url),
         path     |-> UrlPathname(opts.url) \o UrlSearch(opts.url),
         method   |-> opts.method,
         headers  |-> WithContentType(headers, body),
         body     |-> body]

\* reqOptions and the body written to the request
BuildRequest(opts, loaded) == RequestOf(opts, AssembleHeaders(opts, loaded))

\* console.log output is a sequence of <<kind, text>> lines
BannerLines(opts, request) ==
    IF opts.raw THEN <<>>
    ELSE << <<"banner", opts.method \o " " \o request.path>> >>
         \o (IF opts.verbose THEN << <<"request-headers", request.headers>> >> ELSE <<>>)

\* new URL(url) throws: the string has no scheme
UrlInvalid(url) == ~Includes(url, "://")

\* http() sending the request before it loads the session
HttpCall_SendBeforeLoad ==
    /\ hPc = "start"
    /\ IF UrlInvalid(hOpts.url)
       THEN /\ hPc' = "rejected"
            /\ hError' = "Invalid URL"
            /\ UNCHANGED <<hRequests, hStdout>>
       ELSE IF LoadSessionThrows(hSession)
       THEN /\ hRequests' = Append(hRequests, BuildRequest(hOpts, loadSession(EmptyMap)))
            /\ hPc' = "rejected"
            /\ hError' = LoadSessionError(hSession)
            /\ UNCHANGED hStdout
       ELSE LET request == BuildRequest(hOpts, loadSession(SessionView(hSession)))
            IN  /\ hRequests' = Append(hRequests, request)
                /\ hStdout' = hStdout \o BannerLines(hOpts, request)
                /\ hPc' = "pending"
                /\ UNCHANGED hError
    /\ UNCHANGED <<hOpts, hSession, hRes, hSaved, hExit, hStderr>>
    /\ UNCHANGED <<classifyVars, captureVars, sessionVars, pureVars, runVars, replayVars>>

\* the synchronous part of http(): it throws (the promise is rejected) when
\* the URL cannot be parsed or the session cannot be loaded, and otherwise
\* sends one request
HttpCall ==
    /\ hPc = "start"
    /\ IF UrlInvalid(hOpts.url)
       THEN /\ hPc' = "rejected"
            /\ hError' = "Invalid URL"
            /\ UNCHANGED <<hRequests, hStdout>>
       ELSE IF LoadSessionThrows(hSession)
       THEN /\ hPc' = "rejected"
            /\ hError' = LoadSessionError(hSession)
            /\ UNCHANGED <<hRequests, hStdout>>
       ELSE LET request == BuildRequest(hOpts, loadSession(SessionView(hSession)))
            IN  /\ hRequests' = Append(hRequests, request)
                /\ hStdout' = hStdout \o BannerLines(hOpts, request)
                /\ hPc' = "pending"
                /\ UNCHANGED hError
    /\ UNCHANGED <<hOpts, hSession, hRes, hSaved, hExit, hStderr>>
    /\ UNCHANGED <<classifyVars, captureVars, sessionVars, pureVars, runVars, replayVars>>

----------------------------------------------------------------------------
(* lib/http.js: http(), the response and error handlers *)

HeaderOr(headers, name, default) == IF name \in DOMAIN headers THEN headers[name] ELSE default

LooksLikeLogin(location) == Includes(location, "login") \/ Includes(location, "accounts")

\* the lines printed for a 301/302 response
RedirectLines(opts, location) ==
    IF opts.raw THEN <<>>
    ELSE << <<"redirected", location>> >>
         \o (IF LooksLikeLogin(location) THEN << <<"advisory", "Session appears expired">> >> ELSE <<>>)

\* the response body as printed
OutputLines(opts, res, contentType) ==
    IF opts.raw THEN << <<"write", res.body>> >>
    ELSE (IF res.statusCode >= 400 THEN << <<"error", ToString(res.statusCode)>> >> ELSE <<>>)
         \o << <<"body", IF Includes(contentType, "json") THEN formatJson(res.body) ELSE res.body>> >>
         \o (IF ~opts.verbose THEN << <<"status", ToString(res.statusCode)>> >> ELSE <<>>)

\* the text written to the --output file
SavedBody(res, contentType) ==
    IF Includes(contentType, "json") THEN formatJson(res.body) ELSE res.body

\* the handler with the redirect test on status 302 alone
HttpOnEnd_Only302(res) ==
    /\ hPc = "pending"
    /\ hRes' = res
    /\ hPc' = "resolved"
    /\ LET contentType == HeaderOr(res.headers, "content-type", "")
           info        == IF hOpts.verbose /\ ~hOpts.raw
                          THEN << <<"response-info", ToString(res.statusCode)>> >> ELSE <<>>
       IN  IF res.statusCode = 302
           THEN /\ hStdout' = hStdout \o info
                                \o RedirectLines(hOpts, HeaderOr(res.headers, "location", ""))
                /\ UNCHANGED hSaved
           ELSE /\ hStdout' = hStdout \o info \o OutputLines(hOpts, res, contentType)
                               \o (IF hOpts.output # "" /\ ~hOpts.raw
                                   THEN << <<"saved", hOpts.output>> >> ELSE <<>>)
                /\ hSaved' = IF hOpts.output # ""
                             THEN Append(hSaved,
                                         SavedBody(res, contentType))
                             ELSE hSaved
    /\ UNCHANGED <<hOpts, hSession, hRequests, hError, hExit, hStderr>>
    /\ UNCHANGED <<classifyVars, captureVars, sessionVars, pureVars, runVars, replayVars>>

\* res.on('end', ...): the fully buffered response is handled and the
\* promise is resolved
HttpOnEnd(res) ==
    /\ hPc = "pending"
    /\ hRes' = res
    /\ hPc' = "resolved"
    /\ LET contentType == HeaderOr(res.headers, "content-type", "")
           info        == IF hOpts.verbose /\ ~hOpts.raw
                          THEN << <<"response-info", ToString(res.statusCode)>> >> ELSE <<>>
       IN  IF res.statusCode = 302 \/ res.statusCode = 301
           THEN /\ hStdout' = hStdout \o info
                                \o RedirectLines(hOpts, HeaderOr(res.headers, "location", ""))
                /\ UNCHANGED hSaved
           ELSE /\ hStdout' = hStdout \o info \o OutputLines(hOpts, res, contentType)
                               \o (IF hOpts.output # "" /\ ~hOpts.raw
                                   THEN << <<"saved", hOpts.output>> >> ELSE <<>>)
                /\ hSaved' = IF hOpts.output # ""
                             THEN Append(hSaved,
                                         SavedBody(res, contentType))
                             ELSE hSaved
    /\ UNCHANGED <<hOpts, hSession, hRequests, hError, hExit, hStderr>>
    /\ UNCHANGED <<classifyVars, captureVars, sessionVars, pureVars, runVars, replayVars>>

\* err.message of the errors the socket reports
TransportErrors == {"connect ECONNREFUSED 127.0.0.1:443", "getaddrinfo ENOTFOUND x.com"}

\* the error handler starting the invocation over
HttpOnError_Retry(cause) ==
    /\ hPc = "pending"
    /\ hPc' = "start"
    /\ hError' = "Request failed: " \o cause
    /\ UNCHANGED <<hOpts, hSession, hRequests, hRes, hStdout, hSaved, hExit, hStderr>>
    /\ UNCHANGED <<classifyVars, captureVars, sessionVars, pureVars, runVars, replayVars>>

\* req.on('error', ...): the promise is rejected
HttpOnError(cause) ==
    /\ hPc = "pending"
    /\ hPc' = "rejected"
    /\ hError' = "Request failed: " \o cause
    /\ UNCHANGED <<hOpts, hSession, hRequests, hRes, hStdout, hSaved, hExit, hStderr>>
    /\ UNCHANGED <<classifyVars, captureVars, sessionVars, pureVars, runVars, replayVars>>

----------------------------------------------------------------------------
(* bin/cli.js: the http subcommand around http() *)

\* the exit code of a process that has not exited
NoExit == -1

\* hSession when no --session option was given
NoSessionOption == [kind |-> "no-option"]

\* the argument checks with the session check first
CliHttp_SessionFirst ==
    /\ hPc = "cli"
    /\ IF hSession = NoSessionOption
       THEN /\ hStderr' = hStderr \o <<"Error: Session file is required.",
                                       "Create a session with: peek-api login <url>">>
            /\ hExit' = 1
            /\ hPc' = "exited"
       ELSE IF hOpts.url = ""
       THEN /\ hStderr' = Append(hStderr, "Error: URL is required.")
            /\ hExit' = 1
            /\ hPc' = "exited"
       ELSE /\ hPc' = "start"
            /\ UNCHANGED <<hExit, hStderr>>
    /\ UNCHANGED <<hOpts, hSession, hRequests, hRes, hStdout, hSaved, hError>>
    /\ UNCHANGED <<classifyVars, captureVars, sessionVars, pureVars, runVars, replayVars>>

\* the argument checks before http() is called
CliHttp ==
    /\ hPc = "cli"
    /\ IF hOpts.url = ""
       THEN /\ hStderr' = Append(hStderr, "Error: URL is required.")
            /\ hExit' = 1
            /\ hPc' = "exited"
       ELSE IF hSession = NoSessionOption
       THEN /\ hStderr' = hStderr \o <<"Error: Session file is required.",
                                       "Create a session with: peek-api login <url>">>
            /\ hExit' = 1
            /\ hPc' = "exited"
       ELSE /\ hPc' = "start"
            /\ UNCHANGED <<hExit, hStderr>>
    /\ UNCHANGED <<hOpts, hSession, hRequests, hRes, hStdout, hSaved, hError>>
    /\ UNCHANGED <<classifyVars, captureVars, sessionVars, pureVars, runVars, replayVars>>

\* the handler that also fails on an HTTP error status
CliHttpSettled_FailOnStatus ==
    /\ hPc \in {"resolved", "rejected"}
    /\ hExit = NoExit
    /\ IF hPc = "rejected" \/ hRes.statusCode >= 400
       THEN /\ hStderr' = Append(hStderr, "Error: " \o hError)
            /\ hExit' = 1
       ELSE /\ hExit' = 0
            /\ UNCHANGED hStderr
    /\ UNCHANGED <<hOpts, hSession, hPc, hRequests, hRes, hStdout, hSaved, hError>>
    /\ UNCHANGED <<classifyVars, captureVars, sessionVars, pureVars, runVars, replayVars>>

\* `await http(httpOptions)` settles: the catch block prints the message and
\* exits 1; after a resolved promise the process ends with exit code 0
CliHttpSettled ==
    /\ hPc \in {"resolved", "rejected"}
    /\ hExit = NoExit
    /\ IF hPc = "rejected"
       THEN /\ hStderr' = Append(hStderr, "Error: " \o hError)
            /\ hExit' = 1
       ELSE /\ hExit' = 0
            /\ UNCHANGED hStderr
    /\ UNCHANGED <<hOpts, hSession, hPc, hRequests, hRes, hStdout, hSaved, hError>>
    /\ UNCHANGED <<classifyVars, captureVars, sessionVars, pureVars, runVars, replayVars>>

----------------------------------------------------------------------------
(* Inputs *)

ResourceTypes == {"xhr", "fetch", "document", "script", "image"}

ClassifyHosts == {"x.com", "api.hotjar.io", "graphql.x.com"}

ClassifyPaths ==
    {"/", "/data", "/api/users", "/api/sprite.png", "/app.JS", "/graphql",
     "/rest/v1", "/v2/doubleclick", "/json"}

ClassifyQueries == {"", "?id=1", "?f=a.js", "?next=/api/x", "?ref=mixpanel"}

ClassifyUrls ==
    {"https://" \o h \o p \o q : h \in ClassifyHosts, p \in ClassifyPaths, q \in ClassifyQueries}

\* header mappings of the request events of a capture session
NoAuthHeaders == << <<"accept", "*/*">>, <<"content-type", "text/plain">> >>

FirstHeaders ==
    << <<"authorization", "Bearer t1">>,
       <<"cookie", "sid=a; csrftoken=c1">> >>

SecondHeaders ==
    << <<"authorization", "Bearer t2">>,
       <<"x-csrf-token", "k2">>,
       <<"content-type", "application/json">>,
       <<"cookie", "sid=b; theme=dark">> >>

RawRequest(m, u, t, h, d) ==
    [method |-> m, url |-> u, resourceType |-> t, headers |-> h, postData |-> d]

RawRequests ==
    { RawRequest("GET",  "https://x.com/api/users",         "xhr",      FirstHeaders,  ""),
      RawRequest("GET",  "https://x.com/api/users?page=2",  "xhr",      SecondHeaders, ""),
      RawRequest("GET",  "https://cdn.x.com/api/users",     "fetch",    NoAuthHeaders, ""),
      RawRequest("POST", "https://x.com/api/users",         "xhr",      SecondHeaders, "{\"a\":1}"),
      RawRequest("GET",  "https://x.com/api/posts",         "document", NoAuthHeaders, ""),
      RawRequest("GET",  "https://x.com/app.js",            "script",   FirstHeaders,  ""),
      RawRequest("POST", "https://api.hotjar.io/api/users", "xhr",      SecondHeaders, "a=1"),
      RawRequest("GET",  "https://x.com/feed",              "fetch",    SecondHeaders, ""),
      RawRequest("GET",  "https://x.com/home",              "document", FirstHeaders,  "") }


\* cookie records of session files
Cookie(n, v, d) == [name |-> n, value |-> v, domain |-> d]

CookieRecords ==
    { Cookie("sessionid", "abc", ".x.com"),
      Cookie("csrftoken", "c1", ".instagram.com"),
      Cookie("csrftoken", "c2", ".x.com"),
      Cookie("JSESSIONID", "j1", ".linkedin.com"),
      Cookie("x-ig-www-claim", "hmac.1", ".instagram.com") }

\* number of cookie records in a session file
MaxCookies == 2

CookieLists == UNION {[1..n -> CookieRecords] : n \in 0..MaxCookies}

\* parsed session objects: cookies and origins may each be absent
SessionObjects ==
    {EmptyMap, [origins |-> <<>>]}
    \cup {[cookies |-> cs] : cs \in CookieLists}
    \cup {[cookies |-> cs, origins |-> <<>>] : cs \in CookieLists}
    \cup {[cookies |-> <<Cookie("sessionid", "abc", ".x.com")>>, version |-> "1"]}

JsonFile(object) == [kind |-> "json", json |-> object]

MissingFile == [kind |-> "missing"]

GarbageFile == [kind |-> "garbage"]

\* JSON text whose top-level value is not an object: 42, "s", true, [], null
ValueFile(type) == [kind |-> "value", type |-> type]

ValueFiles == {ValueFile(t) : t \in {"number", "string", "boolean", "array", "null"}}

\* an object whose cookies field is not an array: "abc", "", 5, 0, true,
\* false, {}, null
OddCookiesFile(type, truthy) == [kind |-> "oddcookies", type |-> type, truthy |-> truthy]

OddCookiesFiles ==
    {OddCookiesFile(t, b) : t \in {"string", "number", "boolean"}, b \in BOOLEAN}
    \cup {OddCookiesFile("object", TRUE), OddCookiesFile("null", FALSE)}

SessionFiles ==
    {JsonFile(o) : o \in SessionObjects} \cup {MissingFile, GarbageFile}
    \cup ValueFiles \cup OddCookiesFiles

\* the session files of the http() runs
InstagramSession ==
    JsonFile([cookies |-> << Cookie("csrftoken", "c1", ".instagram.com"),
                             Cookie("x-ig-www-claim", "hmac.1", ".instagram.com"),
                             Cookie("sessionid", "abc", ".instagram.com") >>,
              origins |-> <<>>])

LinkedInSession ==
    JsonFile([cookies |-> << Cookie("JSESSIONID", "j1", ".linkedin.com"),
                             Cookie("csrftoken", "c1", ".x.com"),
                             Cookie("csrftoken", "c2", ".y.com") >>])

HttpSessions ==
    {InstagramSession, LinkedInSession, JsonFile(EmptyMap),
     JsonFile([cookies |-> <<Cookie("sessionid", "abc", ".x.com")>>]), MissingFile}

HttpUrls ==
    {"https://www.instagram.com/api/v1/feed/", "https://x.com/data?x=1",
     "https://instagram.community/"}

HeaderStringLists ==
    { <<>>,
      <<"X-Custom: value1">>,
      <<"Content-Type: text/xml">>,
      <<"Content-Type:">>,
      <<"content-type: text/xml">>,
      <<"Cookie: mine=1", "X-IG-WWW-Claim: custom", "X-CSRFToken: override", "X-IG-App-ID: 1">>,
      <<"NoColonHere", "User-Agent:  curl ", "Accept: a:b">> }

RequestBodies == {"", "{\"a\":1}", "a=1&b=2"}

HttpOptions(url, method, headers, data, dataFile, userAgent, output, raw, verbose) ==
    [url |-> url, method |-> method, headers |-> headers, data |-> data,
     dataFile |-> dataFile, userAgent |-> userAgent, output |-> output,
     raw |-> raw, verbose |-> verbose]

\* options of the runs that stop when the request is sent
BuildOptions ==
    { HttpOptions(u, m, hs, d, f, ua, "", FALSE, FALSE) :
        u \in HttpUrls, m \in {"GET", "POST"}, hs \in HeaderStringLists,
        d \in RequestBodies, f \in {""} \cup DOMAIN DataFiles, ua \in {"", "curl/8"} }

\* options of the runs that go on to the response
RespondOptions ==
    { HttpOptions(u, "GET", hs, "", "", "", o, r, v) :
        u \in {"https://www.instagram.com/api/v1/feed/", "https://x.com/data?x=1"},
        hs \in {<<>>, <<"X-Custom: value1">>},
        o \in {"", "out.json"}, r \in BOOLEAN, v \in BOOLEAN }

\* command lines without a URL, and with a URL that does not parse
CliOnlyOptions ==
    { HttpOptions(u, "GET", <<>>, "", "", "", "", FALSE, FALSE) : u \in {"", "x.com/data"} }

Response(status, location, contentType, body) ==
    [statusCode |-> status,
     headers    |-> (IF location # "" THEN Put(EmptyMap, "location", location) ELSE EmptyMap)
                    @@ (IF contentType # "" THEN Put(EmptyMap, "content-type", contentType)
                        ELSE EmptyMap),
     body       |-> body]

Responses ==
    { Response(st, loc, ct, b) :
        st \in {200, 301, 302, 307, 404, 500},
        loc \in {"", "https://x.com/home", "https://x.com/accounts/login", "/login?next=/"},
        ct \in {"", "application/json; charset=utf-8", "text/html"},
        b \in {"{\"ok\":true}", "<html>Sign in</html>"} }

\* number of request events delivered in one capture session
MaxEvents == 3

\* the request events of a capture() run
RunRequests ==
    { RawRequest("GET",  "https://www.example.com/api/feed",             "xhr",    FirstHeaders,  ""),
      RawRequest("POST", "https://www.example.com/api/feed",             "xhr",    NoAuthHeaders, "{\"a\":1}"),
      RawRequest("GET",  "https://www.example.com/api/feed+json",        "fetch",  NoAuthHeaders, ""),
      RawRequest("GET",  "https://www.example.com/api//feed/",           "fetch",  NoAuthHeaders, ""),
      RawRequest("GET",  "https://www.example.com/api/v1/users/42?x=1",  "xhr",    NoAuthHeaders, ""),
      RawRequest("GET",  "https://www.example.com/api/v1/users/43/",     "xhr",    SecondHeaders, "") }

\* the options of capture(): the target, --pages, --output and --cdp
RunOption(url, additionalPages, outputDir, cdp) ==
    [url |-> url, additionalPages |-> additionalPages, outputDir |-> outputDir, cdp |-> cdp]

RunUrls ==
    {"https://www.example.com/feed", "https://example.com/",
     "https://api.www.example.com/v1", "https://mywww.example.com:8443/app"}

RunOptions ==
    {RunOption(u, <<>>, "", FALSE) : u \in RunUrls}
    \cup {RunOption("https://www.example.com/feed",
                    <<"/messages", "https://other.example.org/x">>, "", FALSE),
          RunOption("https://www.example.com/feed",
                    <<"/messages", "https://other.example.org/x">>, "out", TRUE)}

\* -H arguments
HeaderStrings ==
    {"X-Custom: value1", "X-Custom:value2", "x-custom: lower", "Accept: a:b",
     "Referer: https://x.com/a?b=c", "  Spaced  :  v  ", "Content-Type:",
     "NoColonHere", "", ": nokey"}

\* number of -H arguments on one command line
MaxHeaderStrings == 2

HeaderStringSeqs == UNION {[1..n -> HeaderStrings] : n \in 0..MaxHeaderStrings}

\* header names given to extractAuth, apart from the Cookie header
PlainHeaderNames ==
    {"authorization", "Authorization", "x-api-key", "ApiKey", "X-CSRF-Header",
     "x-xsrf", "x-access-token", "X-Content-Token", "content-type", "Content-Type",
     "accept", "x-li-track", "X-RestLi-Protocol-Version", "x-ig-app-id", "X-FB-LSD",
     "x-tw-id", "x-lib", "x-request-id"}

\* values of the Cookie header
CookieHeaderValues ==
    {"sid=a; csrftoken=c1", "a=1; flag", "t=x=y=;a=2; a=3", " ; =q;k = v ", ""}

\* header entries: a plain header's value names the header it came from
HeaderEntries ==
    {<<n, "v-" \o n>> : n \in PlainHeaderNames}
    \cup {<<n, v>> : n \in {"cookie", "Cookie"}, v \in CookieHeaderValues}

\* number of entries of a header mapping
MaxHeaders == 2

\* header mappings as Object.entries lists them: no name twice
HeaderMappings ==
    {hs \in UNION {[1..n -> HeaderEntries] : n \in 0..MaxHeaders} :
        \A i, j \in 1..Len(hs) : i # j => hs[i][1] # hs[j][1]}

----------------------------------------------------------------------------
(* States in which a part of the program is not running *)

ClassifyIdle == cUrl = "" /\ cType = "" /\ cPc = "idle" /\ cResult = FALSE

CaptureIdle ==
    /\ capturedRequests = <<>>
    /\ seenKeys = {}
    /\ allAuthHeaders = EmptyMap
    /\ allCookies = EmptyMap
    /\ events = <<>>

SessionIdle == sFile = EmptyMap /\ sPc = "idle" /\ sLoaded = EmptyMap

HttpIdle ==
    /\ hOpts = EmptyMap
    /\ hSession = EmptyMap
    /\ hPc = "idle"
    /\ hRequests = <<>>
    /\ hRes = EmptyMap
    /\ hStdout = <<>>
    /\ hSaved = <<>>
    /\ hError = ""
    /\ hExit = NoExit
    /\ hStderr = <<>>

PureIdle == fIn = EmptyMap /\ fPc = "idle" /\ fOut = EmptyMap

RunIdle ==
    /\ rOpts = EmptyMap
    /\ rPc = "idle"
    /\ rDomain = ""
    /\ rOutputDir = ""
    /\ rVisits = <<>>
    /\ rOutcomes = <<>>
    /\ rBrowser = "none"
    /\ rGrouped = EmptyMap
    /\ rReport = <<>>
    /\ rFiles = EmptyMap
    /\ rError = ""

ReplayIdle ==
    /\ pTable = <<>>
    /\ pFile = EmptyMap
    /\ pOpts = <<>>
    /\ pPc = <<>>
    /\ pLoaded = <<>>
    /\ pRequests = <<>>
    /\ pRes = <<>>

----------------------------------------------------------------------------
(* isApiRequest applied to one input *)

ClassifyInit ==
    /\ cUrl \in ClassifyUrls
    /\ cType \in ResourceTypes
    /\ cPc = "call"
    /\ cResult = FALSE
    /\ CaptureIdle /\ SessionIdle /\ HttpIdle /\ PureIdle /\ RunIdle /\ ReplayIdle

Classify ==
    /\ cPc = "call"
    /\ cResult' = isApiRequest(cUrl, cType)
    /\ cPc' = "done"
    /\ UNCHANGED <<cUrl, cType, captureVars, sessionVars, httpVars, pureVars, runVars, replayVars>>

ClassifyNext == Classify

SpecClassify == ClassifyInit /\ [][ClassifyNext]_vars

----------------------------------------------------------------------------
(* loadSession applied to one session file *)

SessionInit ==
    /\ sFile \in SessionFiles
    /\ sPc = "call"
    /\ sLoaded = EmptyMap
    /\ ClassifyIdle /\ CaptureIdle /\ HttpIdle /\ PureIdle /\ RunIdle /\ ReplayIdle

LoadSession ==
    /\ sPc = "call"
    /\ IF LoadSessionThrows(sFile)
       THEN sPc' = "threw" /\ sLoaded' = EmptyMap
       ELSE sPc' = "done" /\ sLoaded' = loadSession(SessionView(sFile))
    /\ UNCHANGED <<sFile, classifyVars, captureVars, httpVars, pureVars, runVars, replayVars>>

SessionNext == LoadSession

SpecSession == SessionInit /\ [][SessionNext]_vars

----------------------------------------------------------------------------
(* http(): runs up to the sent request, and runs through the response *)

\* nothing sent, received or printed yet
HttpFresh ==
    /\ hRequests = <<>>
    /\ hRes = EmptyMap
    /\ hStdout = <<>>
    /\ hSaved = <<>>
    /\ hError = ""
    /\ hExit = NoExit
    /\ hStderr = <<>>
    /\ ClassifyIdle /\ CaptureIdle /\ SessionIdle /\ PureIdle /\ RunIdle /\ ReplayIdle

HttpStart == hPc = "start" /\ HttpFresh

BuildInit ==
    /\ hOpts \in BuildOptions
    /\ hSession \in HttpSessions
    /\ HttpStart

BuildNext == HttpCall

SpecBuild == BuildInit /\ [][BuildNext]_vars

\* the session files of the CLI runs
CliSessions ==
    {InstagramSession, MissingFile, GarbageFile, ValueFile("number"), ValueFile("null"),
     OddCookiesFile("string", TRUE), NoSessionOption}

HttpInit ==
    /\ hOpts \in RespondOptions \cup CliOnlyOptions
    /\ hSession \in CliSessions
    /\ hPc = "cli"
    /\ HttpFresh

HttpNext ==
    \/ CliHttp
    \/ HttpCall
    \/ \E res \in Responses : HttpOnEnd(res)
    \/ \E cause \in TransportErrors : HttpOnError(cause)
    \/ CliHttpSettled

SpecHttp == HttpInit /\ [][HttpNext]_vars

----------------------------------------------------------------------------
(* extractAuth applied to one header mapping *)

ExtractInit ==
    /\ fIn \in HeaderMappings
    /\ fPc = "call"
    /\ fOut = EmptyMap
    /\ ClassifyIdle /\ CaptureIdle /\ SessionIdle /\ HttpIdle /\ RunIdle /\ ReplayIdle

ExtractAuth ==
    /\ fPc = "call"
    /\ fOut' = extractAuth(fIn)
    /\ fPc' = "done"
    /\ UNCHANGED <<fIn, classifyVars, captureVars, sessionVars, httpVars, runVars, replayVars>>

ExtractNext == ExtractAuth

SpecExtract == ExtractInit /\ [][ExtractNext]_vars

----------------------------------------------------------------------------
(* parseCustomHeaders applied to one list of header strings *)

CustomInit ==
    /\ fIn \in HeaderStringSeqs
    /\ fPc = "call"
    /\ fOut = EmptyMap
    /\ ClassifyIdle /\ CaptureIdle /\ SessionIdle /\ HttpIdle /\ RunIdle /\ ReplayIdle

ParseCustomHeaders ==
    /\ fPc = "call"
    /\ fOut' = parseCustomHeaders(fIn)
    /\ fPc' = "done"
    /\ UNCHANGED <<fIn, classifyVars, captureVars, sessionVars, httpVars, runVars, replayVars>>

CustomNext == ParseCustomHeaders

SpecCustom == CustomInit /\ [][CustomNext]_vars

----------------------------------------------------------------------------
(* several http() invocations in one process, on one session file *)

\* number of http() invocations in the process
MaxInvocations == 2

ReplayOptions ==
    { HttpOptions("https://www.instagram.com/api/v1/feed/", "GET", <<>>, "", "", "", "", FALSE, FALSE),
      HttpOptions("https://www.instagram.com/api/v1/feed/", "GET", <<"X-Custom: value1">>,
                  "", "", "", "", FALSE, FALSE),
      HttpOptions("https://www.instagram.com/api/v1/feed/", "POST",
                  <<"Cookie: mine=1", "X-IG-WWW-Claim: custom", "X-CSRFToken: override",
                    "X-IG-App-ID: 1">>,
                  "{\"a\":1}", "", "curl/8", "", FALSE, FALSE),
      HttpOptions("https://x.com/data?x=1", "POST", <<"Content-Type: text/xml">>,
                  "a=1&b=2", "", "", "", FALSE, FALSE) }

ReplaySessions == {InstagramSession, LinkedInSession}

ReplayResponses ==
    { Response(200, "", "application/json; charset=utf-8", "{\"ok\":true}"),
      Response(302, "https://x.com/accounts/login", "text/html", "<html>Sign in</html>") }

ReplayInit ==
    /\ pTable = PLATFORM_HEADERS
    /\ pFile \in ReplaySessions
    /\ pOpts \in [1..MaxInvocations -> ReplayOptions]
    /\ pPc = [i \in 1..MaxInvocations |-> "start"]
    /\ pLoaded = [i \in 1..MaxInvocations |-> EmptyMap]
    /\ pRequests = [i \in 1..MaxInvocations |-> EmptyMap]
    /\ pRes = [i \in 1..MaxInvocations |-> EmptyMap]
    /\ ClassifyIdle /\ CaptureIdle /\ SessionIdle /\ HttpIdle /\ PureIdle /\ RunIdle

\* the table after Object.assign(target, source) on the object that
\* detectPlatform returned for hostname
RECURSIVE AssignIntoPlatform(_, _, _)
AssignIntoPlatform(table, hostname, source) ==
    IF table = <<>> THEN <<>>
    ELSE IF Includes(hostname, Head(table)[1])
         THEN << <<Head(table)[1], ObjectAssign(Head(table)[2], source)>> >> \o Tail(table)
    ELSE <<Head(table)>> \o AssignIntoPlatform(Tail(table), hostname, source)

\* http() merging the custom headers into the object detectPlatform returned
ReplayCall_AssignIntoPlatform(i) ==
    /\ pPc[i] = "start"
    /\ LET loaded == loadSession(SessionView(pFile))
       IN  /\ pLoaded' = [pLoaded EXCEPT ![i] = loaded]
           /\ pRequests' = [pRequests EXCEPT
                  ![i] = RequestOf(pOpts[i], AssembleHeadersFrom(pTable, pOpts[i], loaded))]
    /\ pTable' = AssignIntoPlatform(pTable, UrlHostname(pOpts[i].url),
                                    parseCustomHeaders(pOpts[i].headers))
    /\ pPc' = [pPc EXCEPT ![i] = "pending"]
    /\ UNCHANGED <<pFile, pOpts, pRes>>
    /\ UNCHANGED <<classifyVars, captureVars, sessionVars, httpVars, pureVars, runVars>>

\* the synchronous part of invocation i: the session file is read, the
\* headers are spread into a new requestHeaders object and the request is
\* sent
ReplayCall(i) ==
    /\ pPc[i] = "start"
    /\ LET loaded == loadSession(SessionView(pFile))
       IN  /\ pLoaded' = [pLoaded EXCEPT ![i] = loaded]
           /\ pRequests' = [pRequests EXCEPT
                  ![i] = RequestOf(pOpts[i], AssembleHeadersFrom(pTable, pOpts[i], loaded))]
    /\ pPc' = [pPc EXCEPT ![i] = "pending"]
    /\ UNCHANGED <<pTable, pFile, pOpts, pRes>>
    /\ UNCHANGED <<classifyVars, captureVars, sessionVars, httpVars, pureVars, runVars>>

\* res.on('end', ...) of invocation i
ReplayOnEnd(i, res) ==
    /\ pPc[i] = "pending"
    /\ pRes' = [pRes EXCEPT ![i] = res]
    /\ pPc' = [pPc EXCEPT ![i] = "resolved"]
    /\ UNCHANGED <<pTable, pFile, pOpts, pLoaded, pRequests>>
    /\ UNCHANGED <<classifyVars, captureVars, sessionVars, httpVars, pureVars, runVars>>

ReplayNext ==
    \E i \in 1..MaxInvocations :
        \/ ReplayCall(i)
        \/ \E res \in ReplayResponses : ReplayOnEnd(i, res)

SpecReplay == ReplayInit /\ [][ReplayNext]_vars

----------------------------------------------------------------------------
(* dedupEndpoints applied to one list of endpoint records, and to its own *)
(* result                                                                  *)

\* length of the list handed to dedupEndpoints
MaxEndpoints == 3

\* an endpoint record: the fields dedupEndpoints reads, and the timestamp
\* that tells two records of one request apart
Endpoint(method, url, timestamp) == [method |-> method, url |-> url, timestamp |-> timestamp]

Endpoints ==
    { Endpoint("GET",  "https://www.example.com/api/feed?page=1", 1),
      Endpoint("GET",  "https://www.example.com/api/feed?page=2", 2),
      Endpoint("POST", "https://www.example.com/api/feed?page=1", 3),
      Endpoint("GET",  "https://cdn.example.org/api/feed", 4),
      Endpoint("GET",  "https://www.example.com/api/feed/", 5) }

RECURSIVE SeqsUpTo(_, _)
SeqsUpTo(S, n) ==
    IF n = 0 THEN {<<>>}
    ELSE SeqsUpTo(S, n - 1)
         \cup {Append(q, x) : q \in {r \in SeqsUpTo(S, n - 1) : Len(r) = n - 1}, x \in S}

DedupInit ==
    /\ fIn \in SeqsUpTo(Endpoints, MaxEndpoints)
    /\ fPc = "call"
    /\ fOut = <<>>
    /\ ClassifyIdle /\ CaptureIdle /\ SessionIdle /\ HttpIdle /\ RunIdle /\ ReplayIdle

\* dedupEndpoints(endpoints)
DedupEndpoints ==
    /\ fPc = "call"
    /\ fOut' = <<dedupEndpoints(fIn)>>
    /\ fPc' = "once"
    /\ UNCHANGED <<fIn, classifyVars, captureVars, sessionVars, httpVars, runVars, replayVars>>

\* dedupEndpoints applied to its own result
DedupEndpointsAgain ==
    /\ fPc = "once"
    /\ fOut' = Append(fOut, dedupEndpoints(fOut[1]))
    /\ fPc' = "twice"
    /\ UNCHANGED <<fIn, classifyVars, captureVars, sessionVars, httpVars, runVars, replayVars>>

DedupNext == DedupEndpoints \/ DedupEndpointsAgain

SpecDedup == DedupInit /\ [][DedupNext]_vars

----------------------------------------------------------------------------
(* formatJson applied to one response body, once and again, and the body  *)
(* as the end handler prints and saves it                                  *)

\* response bodies: JSON texts with distinct, non-numeric keys, and texts
\* JSON.parse rejects
FormatBodies ==
    { "{\"ok\":true}",
      "{ \"a\" : [1, 2] ,\"b\":{}}",
      "[1, [2,{\"a\":null}]]",
      "  [\"x\",{\"y\":{\"z\":[ ]}}]\n",
      "\"text\"",
      "42",
      "{\n  \"ok\": true\n}",
      "<html>Sign in</html>",
      "{\"ok\":true",
      "{\"a\":1} x",
      "{'a':1}",
      "" }

FormatContentTypes ==
    {"", "application/json; charset=utf-8", "application/vnd.api+json", "text/html"}

FormatInit ==
    /\ fIn \in [body : FormatBodies, contentType : FormatContentTypes, raw : BOOLEAN]
    /\ fPc = "call"
    /\ fOut = <<>>
    /\ ClassifyIdle /\ CaptureIdle /\ SessionIdle /\ HttpIdle /\ RunIdle /\ ReplayIdle

\* formatJson(responseBody)
FormatJson ==
    /\ fPc = "call"
    /\ fOut' = <<formatJson(fIn.body)>>
    /\ fPc' = "once"
    /\ UNCHANGED <<fIn, classifyVars, captureVars, sessionVars, httpVars, runVars, replayVars>>

\* formatJson applied to its own result
FormatJsonAgain ==
    /\ fPc = "once"
    /\ fOut' = Append(fOut, formatJson(fOut[1]))
    /\ fPc' = "twice"
    /\ UNCHANGED <<fIn, classifyVars, captureVars, sessionVars, httpVars, runVars, replayVars>>

\* the Output and Save-to-file blocks of the end handler for a 200 response:
\* the body as printed, then the body as written to the file
FormatShow ==
    /\ fPc = "call"
    /\ LET res   == Response(200, "", fIn.contentType, fIn.body)
           lines == OutputLines([raw |-> fIn.raw, verbose |-> TRUE], res, fIn.contentType)
       IN  fOut' = <<lines[1][2], SavedBody(res, fIn.contentType)>>
    /\ fPc' = "shown"
    /\ UNCHANGED <<fIn, classifyVars, captureVars, sessionVars, httpVars, runVars, replayVars>>

FormatNext == FormatJson \/ FormatJsonAgain \/ FormatShow

SpecFormat == FormatInit /\ [][FormatNext]_vars

----------------------------------------------------------------------------
(* capture(): the request listener during one capture session *)

CaptureInit == ClassifyIdle /\ CaptureIdle /\ SessionIdle /\ HttpIdle /\ PureIdle /\ RunIdle /\ ReplayIdle

\* the listener with extractAuth and the merge moved before the seenKeys check
OnRequest_MineFirst(request) ==
    /\ Len(events) < MaxEvents
    /\ events' = Append(events, request)
    /\ IF ~isApiRequest(request.url, request.resourceType)
       THEN UNCHANGED <<capturedRequests, seenKeys, allAuthHeaders, allCookies>>
       ELSE LET auth == extractAuth(request.headers)
            IN  /\ allAuthHeaders' = ObjectAssign(allAuthHeaders, auth.headers)
                /\ allCookies' = IF DOMAIN auth.cookies # {}
                                 THEN ObjectAssign(allCookies, auth.cookies)
                                 ELSE allCookies
                /\ IF RequestKey(request) \in seenKeys
                   THEN UNCHANGED <<capturedRequests, seenKeys>>
                   ELSE /\ seenKeys' = seenKeys \cup {RequestKey(request)}
                        /\ capturedRequests' =
                               Append(capturedRequests,
                                      CapturedEntry(request, auth, Len(events) + 1))
    /\ UNCHANGED <<classifyVars, sessionVars, httpVars, pureVars, runVars, replayVars>>

\* page.on('request', (request) => { ... }); the timestamp of an entry is
\* the position of its request event in the session
OnRequest(request) ==
    /\ Len(events) < MaxEvents
    /\ events' = Append(events, request)
    /\ IF ~isApiRequest(request.url, request.resourceType)
       THEN UNCHANGED <<capturedRequests, seenKeys, allAuthHeaders, allCookies>>
       ELSE IF RequestKey(request) \in seenKeys
       THEN UNCHANGED <<capturedRequests, seenKeys, allAuthHeaders, allCookies>>
       ELSE LET auth == extractAuth(request.headers)
            IN  /\ seenKeys' = seenKeys \cup {RequestKey(request)}
                /\ allAuthHeaders' = ObjectAssign(allAuthHeaders, auth.headers)
                /\ allCookies' = IF DOMAIN auth.cookies # {}
                                 THEN ObjectAssign(allCookies, auth.cookies)
                                 ELSE allCookies
                /\ capturedRequests' =
                       Append(capturedRequests, CapturedEntry(request, auth, Len(events) + 1))
    /\ UNCHANGED <<classifyVars, sessionVars, httpVars, pureVars, runVars, replayVars>>

\* the listener with the key added to seenKeys ahead of the classification
CaptureNext_KeyBeforeClassify ==
    \E request \in RawRequests :
        /\ Len(events) < MaxEvents
        /\ events' = Append(events, request)
        /\ seenKeys' = seenKeys \cup {RequestKey(request)}
        /\ IF ~isApiRequest(request.url, request.resourceType)
              \/ RequestKey(request) \in seenKeys
           THEN UNCHANGED <<capturedRequests, allAuthHeaders, allCookies>>
           ELSE LET auth == extractAuth(request.headers)
                IN  /\ allAuthHeaders' = ObjectAssign(allAuthHeaders, auth.headers)
                    /\ allCookies' = IF DOMAIN auth.cookies # {}
                                     THEN ObjectAssign(allCookies, auth.cookies)
                                     ELSE allCookies
                    /\ capturedRequests' =
                           Append(capturedRequests,
                                  CapturedEntry(request, auth, Len(events) + 1))
        /\ UNCHANGED <<classifyVars, sessionVars, httpVars, pureVars, runVars, replayVars>>

CaptureNext == \E request \in RawRequests : OnRequest(request)

SpecCapture == CaptureInit /\ [][CaptureNext]_vars

----------------------------------------------------------------------------
(* capture(): one run, from the launch of the browser to its end *)

RunInit ==
    /\ rOpts \in RunOptions
    /\ rPc = "start"
    /\ rDomain = ""
    /\ rOutputDir = ""
    /\ rVisits = <<>>
    /\ rOutcomes = <<>>
    /\ rBrowser = "none"
    /\ rGrouped = EmptyMap
    /\ rReport = <<>>
    /\ rFiles = EmptyMap
    /\ rError = ""
    /\ ClassifyIdle /\ CaptureIdle /\ SessionIdle /\ HttpIdle /\ PureIdle /\ ReplayIdle

\* the domain and the output directory are computed, the browser is
\* launched or connected to, the listener is registered and the navigation
\* to the main URL is started
RunLaunch ==
    /\ rPc = "start"
    /\ rDomain' = DomainOf(rOpts.url)
    /\ rOutputDir' = OutputDirOf(rOpts, DomainOf(rOpts.url))
    /\ rBrowser' = "open"
    /\ rPc' = "main"
    /\ UNCHANGED <<rOpts, rVisits, rOutcomes, rGrouped, rReport, rFiles, rError>>
    /\ UNCHANGED <<classifyVars, captureVars, sessionVars, httpVars, pureVars, replayVars>>

\* a request event while a page is loading or being scrolled
RunOnRequest(request) ==
    /\ rPc \in {"main", "page"}
    /\ OnRequest(request)

\* What capture() does once a page is over, up to its next await: it starts
\* the navigation to the next additional page or, after the last one, prints
\* the summary, and then either closes the browser and returns (nothing
\* captured) or groups the endpoints, builds the report, writes the three
\* files and closes the browser.  writeOk is whether the file system lets
\* the output be written; when it does not, the exception leaves capture().
RunContinue(outcomes, writeOk) ==
    /\ rOutcomes' = outcomes
    /\ IF Len(rVisits) < Len(rOpts.additionalPages)
       THEN /\ rVisits' = Append(rVisits, PageUrl(rOpts, rOpts.additionalPages[Len(rVisits) + 1]))
            /\ rPc' = "page"
            /\ UNCHANGED <<rBrowser, rGrouped, rReport, rFiles, rError>>
       ELSE IF capturedRequests = <<>>
       THEN /\ rBrowser' = "closed"
            /\ rPc' = "done"
            /\ UNCHANGED <<rVisits, rGrouped, rReport, rFiles, rError>>
       ELSE LET grouped == GroupLoop(capturedRequests, EmptyMap)
                report  == ReportSections(grouped)
            IN  /\ rGrouped' = grouped
                /\ rReport' = report
                /\ UNCHANGED rVisits
                /\ IF writeOk
                   THEN /\ rFiles' = OutputFiles(rOutputDir, rDomain, report,
                                                 allAuthHeaders, allCookies, capturedRequests)
                        /\ rBrowser' = "closed"
                        /\ rPc' = "done"
                        /\ UNCHANGED rError
                   ELSE /\ rError' = "EACCES: permission denied, mkdir"
                        /\ rPc' = "failed"
                        /\ UNCHANGED <<rBrowser, rFiles>>

\* the main page is over: page.goto threw, or the page was loaded and
\* scrolled for the capture duration
RunMainDone(ok, writeOk) ==
    /\ rPc = "main"
    /\ IF ok
       THEN RunContinue(rOutcomes, writeOk)
       ELSE /\ rError' = "page.goto: Timeout 30000ms exceeded"
            /\ rPc' = "failed"
            /\ UNCHANGED <<rVisits, rOutcomes, rBrowser, rGrouped, rReport, rFiles>>
    /\ UNCHANGED <<rOpts, rDomain, rOutputDir>>
    /\ UNCHANGED <<classifyVars, captureVars, sessionVars, httpVars, pureVars, replayVars>>

\* the loop without its try/catch: a page that fails to load ends the run
RunPageDone_NoCatch(ok, writeOk) ==
    /\ rPc = "page"
    /\ IF ok
       THEN RunContinue(Append(rOutcomes, "ok"), writeOk)
       ELSE /\ rError' = "page.goto: Timeout 20000ms exceeded"
            /\ rPc' = "failed"
            /\ rOutcomes' = Append(rOutcomes, "failed")
            /\ UNCHANGED <<rVisits, rBrowser, rGrouped, rReport, rFiles>>
    /\ UNCHANGED <<rOpts, rDomain, rOutputDir>>
    /\ UNCHANGED <<classifyVars, captureVars, sessionVars, httpVars, pureVars, replayVars>>

\* an additional page is over: loaded and scrolled, or the error of its
\* navigation was caught and logged
RunPageDone(ok, writeOk) ==
    /\ rPc = "page"
    /\ RunContinue(Append(rOutcomes, IF ok THEN "ok" ELSE "failed"), writeOk)
    /\ UNCHANGED <<rOpts, rDomain, rOutputDir>>
    /\ UNCHANGED <<classifyVars, captureVars, sessionVars, httpVars, pureVars, replayVars>>

RunNext ==
    \/ RunLaunch
    \/ \E request \in RunRequests : RunOnRequest(request)
    \/ \E ok \in BOOLEAN, writeOk \in BOOLEAN : RunMainDone(ok, writeOk)
    \/ \E ok \in BOOLEAN, writeOk \in BOOLEAN : RunPageDone(ok, writeOk)

SpecRun == RunInit /\ [][RunNext]_vars

----------------------------------------------------------------------------
(* Properties of the capture listener (SpecCapture) *)

Classified(request) == isApiRequest(request.url, request.resourceType)

PairOfRequest(request) == <<request.method, UrlPathname(request.url)>>

PairOfEntry(entry) == <<entry.method, entry.path>>

\* the request event an entry was built from
EventOf(entry) == events[entry.timestamp]

\* C1: no two captured entries share a (method, path) pair; every entry is
\* the first classified request event with its pair, whatever the query,
\* host or headers of later ones; every classified event's pair has an
\* entry; and the entries are in arrival order.
C1_FirstSeenPerMethodPath ==
    /\ \A i, j \in 1..Len(capturedRequests) :
          i # j => PairOfEntry(capturedRequests[i]) # PairOfEntry(capturedRequests[j])
    /\ \A i \in 1..Len(capturedRequests) :
          LET entry == capturedRequests[i]
          IN  /\ entry.timestamp \in 1..Len(events)
              /\ EventOf(entry).url = entry.url
              /\ EventOf(entry).method = entry.method
              /\ PairOfRequest(EventOf(entry)) = PairOfEntry(entry)
              /\ Classified(EventOf(entry))
              /\ \A k \in 1..(entry.timestamp - 1) :
                    Classified(events[k]) => PairOfRequest(events[k]) # PairOfEntry(entry)
    /\ \A k \in 1..Len(events) :
          Classified(events[k]) =>
              \E i \in 1..Len(capturedRequests) :
                  PairOfEntry(capturedRequests[i]) = PairOfRequest(events[k])
    /\ \A i, j \in 1..Len(capturedRequests) :
          i < j => capturedRequests[i].timestamp < capturedRequests[j].timestamp

\* a later classified request with the same method and path but another
\* query string and other headers was delivered and dropped
C1_Witness ==
    /\ Len(events) >= 2
    /\ Len(capturedRequests) = 1
    /\ Classified(events[1]) /\ Classified(events[2])
    /\ PairOfRequest(events[1]) = PairOfRequest(events[2])
    /\ UrlSearch(events[1].url) # UrlSearch(events[2].url)
    /\ events[1].headers # events[2].headers
    /\ capturedRequests[1].url = events[1].url

\* two same-key requests into an empty catalog: the first one is kept and mined
C2_TwoSameKeyRequests ==
    (/\ Len(events) = 2
     /\ Classified(events[1]) /\ Classified(events[2])
     /\ PairOfRequest(events[1]) = PairOfRequest(events[2])
     /\ events[1].headers # events[2].headers)
    => /\ Len(capturedRequests) = 1
       /\ capturedRequests[1].url = events[1].url
       /\ allAuthHeaders = extractAuth(events[1].headers).headers
       /\ allCookies = extractAuth(events[1].headers).cookies

\* a step that delivers a duplicate of an earlier classified request
C2_DuplicateStep ==
    (/\ Len(events') = Len(events) + 1
     /\ Classified(events'[Len(events')])
     /\ \E k \in 1..Len(events) :
           /\ Classified(events[k])
           /\ PairOfRequest(events[k]) = PairOfRequest(events'[Len(events')]))
    => /\ allAuthHeaders' = allAuthHeaders
       /\ allCookies' = allCookies
       /\ capturedRequests' = capturedRequests

\* C2: a request dropped as a duplicate contributes nothing to the
\* accumulated auth headers and cookies; after two classified requests with
\* the same method and path and different headers, one entry (the first) is
\* recorded and the accumulated auth is what was mined from the first.
C2_DedupBeforeMining == [](C2_TwoSameKeyRequests) /\ [][C2_DuplicateStep]_vars

C2_Witness ==
    /\ Len(events) = 2
    /\ Len(capturedRequests) = 1
    /\ Classified(events[2])
    /\ PairOfRequest(events[1]) = PairOfRequest(events[2])
    /\ extractAuth(events[2].headers).headers # extractAuth(events[1].headers).headers
    /\ extractAuth(events[2].headers).cookies # extractAuth(events[1].headers).cookies
    /\ allAuthHeaders = extractAuth(events[1].headers).headers

\* the interesting headers stored on an entry (none when the field is absent)
HeadersOfEntry(entry) == IF "headers" \in DOMAIN entry THEN entry.headers ELSE EmptyMap

\* the cookies mined from the request an entry was built from
CookiesOfEntry(entry) == extractAuth(EventOf(entry).headers).cookies

\* the value of key k in the latest of a sequence of maps that has k
LatestValue(maps, k) ==
    LET last == CHOOSE i \in 1..Len(maps) :
                    /\ k \in DOMAIN maps[i]
                    /\ \A j \in (i + 1)..Len(maps) : k \notin DOMAIN maps[j]
    IN  maps[last][k]

LastWinsUnion(maps) ==
    [k \in UNION {DOMAIN maps[i] : i \in 1..Len(maps)} |-> LatestValue(maps, k)]

C3_AuthIsLastWinsUnion ==
    /\ allAuthHeaders =
          LastWinsUnion([i \in 1..Len(capturedRequests) |-> HeadersOfEntry(capturedRequests[i])])
    /\ allCookies =
          LastWinsUnion([i \in 1..Len(capturedRequests) |-> CookiesOfEntry(capturedRequests[i])])

C3_NeverShrinks ==
    /\ Len(capturedRequests') >= Len(capturedRequests)
    /\ SubSeq(capturedRequests', 1, Len(capturedRequests)) = capturedRequests
    /\ DOMAIN allAuthHeaders \subseteq DOMAIN allAuthHeaders'
    /\ DOMAIN allCookies \subseteq DOMAIN allCookies'

\* C3: the accumulated auth headers are the last-seen-wins union of the
\* headers stored on the captured entries, the accumulated cookies the
\* last-write-wins union of the cookies mined from the captured requests,
\* and the entry list and the key sets of both maps never shrink.
C3_AuthContextAccumulates == [](C3_AuthIsLastWinsUnion) /\ [][C3_NeverShrinks]_vars

\* two captured entries carry the same header and the same cookie with
\* different values
C3_Witness ==
    /\ Len(capturedRequests) >= 2
    /\ \E k \in DOMAIN HeadersOfEntry(capturedRequests[1]) :
          /\ k \in DOMAIN HeadersOfEntry(capturedRequests[2])
          /\ capturedRequests[1].headers[k] # capturedRequests[2].headers[k]
          /\ allAuthHeaders[k] = capturedRequests[2].headers[k]
    /\ \E c \in DOMAIN CookiesOfEntry(capturedRequests[1]) :
          /\ c \in DOMAIN CookiesOfEntry(capturedRequests[2])
          /\ CookiesOfEntry(capturedRequests[1])[c] # CookiesOfEntry(capturedRequests[2])[c]
          /\ allCookies[c] = CookiesOfEntry(capturedRequests[2])[c]

----------------------------------------------------------------------------
(* Properties of the classifier (SpecClassify) *)

\* the path ends in a static-asset extension, in any letter case
PathHasStaticExtension(path) ==
    \E e \in SkipExtensionList : EndsWith(ToLowerCase(path), "." \o e)

\* host or path carries a tracking fingerprint, in any letter case
HostOrPathIsTracking(host, path) ==
    \E d \in SkipDomainList : Includes(ToLowerCase(host \o path), d)

PathLooksLikeApi(path) ==
    Includes(path, "/api/") \/ Includes(path, "/graphql") \/ Includes(path, "/rest/")

\* C4: a URL that matches the static-asset pattern or a tracking fingerprint
\* is rejected for every resource type and every path.
C4_RejectionDominates ==
    (/\ cPc = "done"
     /\ \/ SKIP_EXTENSIONS(cUrl)
        \/ SKIP_DOMAINS(cUrl)
        \/ PathHasStaticExtension(UrlPathname(cUrl))
        \/ HostOrPathIsTracking(UrlHostname(cUrl), UrlPathname(cUrl)))
    => cResult = FALSE

\* /api/sprite.png requested as xhr is rejected
C4_Witness ==
    /\ cPc = "done"
    /\ cType = "xhr"
    /\ PathHasStaticExtension(UrlPathname(cUrl))
    /\ PathLooksLikeApi(UrlPathname(cUrl))
    /\ ~SKIP_DOMAINS(cUrl)
    /\ cResult = FALSE

\* the ordered rules applied to host, path and resource type
ClassifyByParts(host, path, resourceType) ==
    IF PathHasStaticExtension(path) THEN FALSE
    ELSE IF HostOrPathIsTracking(host, path) THEN FALSE
    ELSE IF resourceType = "xhr" \/ resourceType = "fetch" THEN TRUE
    ELSE PathLooksLikeApi(path)

\* C5: the result is determined by host, path and resource type through the
\* ordered rules, so that the query string never changes it.
C5_DeterminedByHostPathType ==
    cPc = "done" => cResult = ClassifyByParts(UrlHostname(cUrl), UrlPathname(cUrl), cType)

----------------------------------------------------------------------------
(* Properties of the response handler (SpecHttp) *)

\* the re-login advisory was printed
Advisory == \E i \in 1..Len(hStdout) : hStdout[i][1] = "advisory"

\* the response body was written to the output
BodyWritten == \E i \in 1..Len(hStdout) : hStdout[i][1] \in {"write", "body"}

\* a 301/302 response whose Location names a login page
SessionExpired(res) ==
    /\ res.statusCode \in {301, 302}
    /\ "location" \in DOMAIN res.headers
    /\ \/ Includes(res.headers["location"], "login")
       \/ Includes(res.headers["location"], "accounts")

C7_ExpiredResponseStillDelivered ==
    (hRes # EmptyMap /\ SessionExpired(hRes))
    => /\ hPc = "resolved"
       /\ BodyWritten
       /\ hOpts.output # "" => hSaved # <<>>

----------------------------------------------------------------------------
(* Properties of the request assembly (SpecBuild) *)

SentHeaders == hRequests[1].headers

LoadedSession == loadSession(SessionView(hSession))

TargetHostname == UrlHostname(hOpts.url)

\* the five header layers, lowest first
HeaderLayers ==
    << ("Cookie" :> LoadedSession.cookieStr)
         @@ ("User-Agent" :> IF hOpts.userAgent # "" THEN hOpts.userAgent
                             ELSE DEFAULT_USER_AGENT)
         @@ ("Accept" :> "application/json, text/plain, */*")
         @@ ("Accept-Language" :> "en-US,en;q=0.9"),
       LoadedSession.csrf,
       IF Includes(TargetHostname, "instagram.com")
       THEN ("X-IG-App-ID" :> "936619743392459") @@ ("X-Requested-With" :> "XMLHttpRequest")
       ELSE EmptyMap,
       parseCustomHeaders(hOpts.headers),
       IF /\ \E i \in 1..Len(LoadedSession.cookies) :
                 LoadedSession.cookies[i].name = "x-ig-www-claim"
          /\ Includes(TargetHostname, "instagram.com")
       THEN "X-IG-WWW-Claim" :> LoadedSession.wwwClaim[1].value
       ELSE EmptyMap >>

\* C8: the headers of the sent request are the layered merge of defaults,
\* CSRF headers, platform headers, custom headers and the www-claim, later
\* layers overriding earlier ones on exactly equal keys (an inferred
\* Content-Type aside).
C8_HeadersAreLayeredMerge ==
    hPc = "pending" =>
        LET expected == LastWinsUnion(HeaderLayers)
        IN  /\ (DOMAIN SentHeaders) \ {"Content-Type"} = (DOMAIN expected) \ {"Content-Type"}
            /\ \A k \in (DOMAIN expected) \ {"Content-Type"} : SentHeaders[k] = expected[k]
            /\ Truthy(expected, "Content-Type") =>
                   SentHeaders["Content-Type"] = expected["Content-Type"]

\* custom headers override the Cookie, CSRF and platform headers, and the
\* claim cookie overrides the custom X-IG-WWW-Claim
C8_Witness ==
    /\ hPc = "pending"
    /\ hSession = InstagramSession
    /\ Includes(TargetHostname, "instagram.com")
    /\ hOpts.headers =
          <<"Cookie: mine=1", "X-IG-WWW-Claim: custom", "X-CSRFToken: override", "X-IG-App-ID: 1">>
    /\ SentHeaders["Cookie"] = "mine=1"
    /\ SentHeaders["X-CSRFToken"] = "override"
    /\ SentHeaders["X-IG-App-ID"] = "1"
    /\ SentHeaders["X-IG-WWW-Claim"] = "hmac.1"

\* C9: with a body and no Content-Type from the header layers the request
\* gets application/json when the body parses as JSON and
\* application/x-www-form-urlencoded otherwise; a custom Content-Type is
\* sent unchanged; without a body no Content-Type is added.
C9_ContentTypeInference ==
    hPc = "pending" =>
        LET layers == LastWinsUnion(HeaderLayers)
            custom == parseCustomHeaders(hOpts.headers)
            body   == hRequests[1].body
        IN  /\ (body # "" /\ "Content-Type" \notin DOMAIN layers) =>
                   SentHeaders["Content-Type"] =
                       IF JsonParse(body).ok THEN "application/json"
                       ELSE "application/x-www-form-urlencoded"
            /\ "Content-Type" \in DOMAIN custom =>
                   SentHeaders["Content-Type"] = custom["Content-Type"]
            /\ body = "" =>
                   ("Content-Type" \in DOMAIN SentHeaders <=> "Content-Type" \in DOMAIN layers)

----------------------------------------------------------------------------
(* Properties of the session loader (SpecSession) *)

CookiesOfFile(file) ==
    IF "cookies" \in DOMAIN SessionView(file) THEN SessionView(file).cookies ELSE <<>>

\* the session object with every cookie's domain replaced by d
WithDomain(session, d) ==
    IF "cookies" \in DOMAIN session
    THEN [session EXCEPT !.cookies =
              [i \in 1..Len(session.cookies) |-> [session.cookies[i] EXCEPT !.domain = d]]]
    ELSE session

\* C10: the cookie string is name=value of every cookie record in file
\* order joined by "; ", whatever the records' domains; a session object
\* loads without error, and yields "" when it has no cookies.
C10_CookieStringJoinsAllCookies ==
    (sPc # "call" /\ sFile.kind = "json") =>
        LET cookies == CookiesOfFile(sFile)
        IN  /\ sPc = "done"
            /\ cookies = <<>> => sLoaded.cookieStr = ""
            /\ cookies # <<>> =>
                  Split(sLoaded.cookieStr, "; ") =
                        [i \in 1..Len(cookies) |-> cookies[i].name \o "=" \o cookies[i].value]
            /\ \A d \in {"", ".other.org"} :
                  loadSession(WithDomain(sFile.json, d)).cookieStr = sLoaded.cookieStr

\* two cookies of different domains are both in the cookie string
C10_Witness ==
    /\ sPc = "done"
    /\ Len(CookiesOfFile(sFile)) = 2
    /\ CookiesOfFile(sFile)[1].domain # CookiesOfFile(sFile)[2].domain
    /\ sLoaded.cookieStr = "csrftoken=c1; sessionid=abc"

----------------------------------------------------------------------------
(* C11: the CSRF headers derived from the session's cookies *)

\* the value of the first cookie of that name, in file order
FirstCookieValue(cookies, name) ==
    cookies[CHOOSE i \in 1..Len(cookies) :
                /\ cookies[i].name = name
                /\ \A j \in 1..(i - 1) : cookies[j].name # name].value

HasCookie(cookies, name) == \E i \in 1..Len(cookies) : cookies[i].name = name

\* C11: a csrftoken cookie yields the header X-CSRFToken and a JSESSIONID
\* cookie the header csrf-token, no other cookie yields a derived header,
\* and with several cookies of one such name the header carries the value of
\* the first of them in file order.
C11_CsrfFromFirstMatchingCookie ==
    sPc = "done" =>
        LET cookies == sLoaded.cookies
        IN  /\ DOMAIN sLoaded.csrf =
                  {h \in {"X-CSRFToken"} : HasCookie(cookies, "csrftoken")}
                  \cup {h \in {"csrf-token"} : HasCookie(cookies, "JSESSIONID")}
            /\ HasCookie(cookies, "csrftoken") =>
                  sLoaded.csrf["X-CSRFToken"] = FirstCookieValue(cookies, "csrftoken")
            /\ HasCookie(cookies, "JSESSIONID") =>
                  sLoaded.csrf["csrf-token"] = FirstCookieValue(cookies, "JSESSIONID")

----------------------------------------------------------------------------
(* C12: the session is loaded before anything is sent *)

\* C12: when the session file is missing, unreadable or cannot be parsed,
\* http() fails before any request is issued: no request is ever sent, the
\* promise is rejected with the load error and never resolved, and the CLI
\* prints that message and exits with code 1.
C12_SessionLoadGatesNetwork ==
    LoadSessionThrows(hSession) =>
        /\ hRequests = <<>>
        /\ hPc \in {"cli", "exited", "start", "rejected"}
        /\ hExit \in {NoExit, 1}
        /\ (hPc = "rejected" /\ ~UrlInvalid(hOpts.url)) =>
              /\ hError = LoadSessionError(hSession)
              /\ hExit = 1 => hStderr = <<"Error: " \o hError>>

\* a file that is not JSON: the CLI has exited with 1 and nothing was sent
C12_Witness ==
    /\ hSession = GarbageFile
    /\ hExit = 1
    /\ hStderr = <<"Error: Unexpected token in JSON">>
    /\ hRequests = <<>>
    /\ hStdout = <<>>

----------------------------------------------------------------------------
(* C13: the shape of the session file *)

\* JSON text that is not an object, or an object whose cookies are not an array
StructurallyIncompatible(file) == file.kind \in {"value", "oddcookies"}

\* C13: a session file whose JSON is not an object (a number, a string, a
\* boolean, an array, null) or whose cookies field is not a sequence makes
\* loading fail, and no request is built or sent; a session object with
\* extra fields, or without cookies or origins, never fails to load.
C13_MalformedSessionRejected ==
    /\ (StructurallyIncompatible(hSession) /\ hPc \notin {"cli", "exited", "start"}) =>
          /\ hPc = "rejected"
          /\ hRequests = <<>>
    /\ (hSession.kind = "json" /\ hPc = "rejected") =>
          (UrlInvalid(hOpts.url) \/ hRequests # <<>>)

----------------------------------------------------------------------------
(* C14: transport failures *)

\* C14: an invocation issues at most one request; once the connection has
\* failed the promise is rejected with an error that carries the cause, no
\* response is handled or saved, nothing is sent again, and the CLI prints
\* the error and exits with code 1, never 0.
C14_TransportFailureIsTerminal ==
    /\ Len(hRequests) <= 1
    /\ StartsWith(hError, "Request failed: ") =>
          /\ hPc = "rejected"
          /\ SliceFrom(hError, Len("Request failed: ")) \in TransportErrors
          /\ hRes = EmptyMap
          /\ hSaved = <<>>
          /\ hExit \in {NoExit, 1}
          /\ hExit = 1 => hStderr = <<"Error: " \o hError>>

\* the connection was refused: one request, rejected, exit code 1
C14_Witness ==
    /\ hError = "Request failed: connect ECONNREFUSED 127.0.0.1:443"
    /\ Len(hRequests) = 1
    /\ hPc = "rejected"
    /\ hExit = 1

----------------------------------------------------------------------------
(* C15: settling *)

\* one command line, with a session file that loads and one that is missing
HttpFairInit ==
    /\ hOpts = HttpOptions("https://x.com/data?x=1", "GET", <<>>, "", "", "", "", FALSE, FALSE)
    /\ hSession \in {InstagramSession, MissingFile}
    /\ hPc = "cli"
    /\ HttpFresh

\* a step of HttpCall as it shows on hPc: http() was entered and has run
\* its synchronous part
HttpCallStep == hPc = "start" /\ hPc' \in {"pending", "rejected"}

\* The steps the program itself takes are taken when they are enabled: the
\* argument checks, the synchronous part of http() and the continuation of
\* `await http()`.  Whether a response or a socket error ever arrives is up
\* to the server and the network, so HttpOnEnd and HttpOnError are not fair.
SpecHttpFair ==
    /\ HttpFairInit
    /\ [][HttpNext]_vars
    /\ WF_vars(CliHttp)
    /\ WF_hPc(HttpCallStep)
    /\ WF_vars(CliHttpSettled)

\* C15: every http() invocation eventually settles: once the request is
\* sent, the promise is eventually resolved or rejected, also when the
\* server never responds.
C15_EveryInvocationSettles == (hPc = "pending") ~> (hPc \in {"resolved", "rejected"})

----------------------------------------------------------------------------
(* C16: HTTP error statuses *)

\* the response body, raw or pretty-printed
BodyForms(res) == {res.body, formatJson(res.body)}

\* the command line is rejected before or at the start of http()
ArgumentError == hOpts.url = "" \/ hSession = NoSessionOption \/ UrlInvalid(hOpts.url)

----------------------------------------------------------------------------
(* C17, C18: the headers extractAuth copies *)

\* the lower-cased name is one the miner looks for
IsAuthName(name) ==
    LET lk == ToLowerCase(name)
    IN  \/ lk \in {"authorization", "x-api-key", "apikey"}
        \/ Includes(lk, "csrf")
        \/ Includes(lk, "xsrf")
        \/ Includes(lk, "token") /\ ~Includes(lk, "content")
        \/ \E p \in {"x-li-", "x-restli", "x-ig-", "x-fb-", "x-tw-"} : StartsWith(lk, p)

\* the value of entry i is in the result's headers map
Copied(i) == \E k \in DOMAIN fOut.headers : fOut.headers[k] = fIn[i][2]

\* a later entry is the same header in another spelling
Superseded(i) ==
    \E j \in (i + 1)..Len(fIn) : ToLowerCase(fIn[j][1]) = ToLowerCase(fIn[i][1])

\* C17: a header is copied into the result's headers map if and only if its
\* lower-cased name is authorization, x-api-key or apikey, or contains csrf
\* or xsrf, or contains token and not content, or starts with x-li-,
\* x-restli, x-ig-, x-fb- or x-tw- (of one header given in two spellings the
\* later is the one kept); Content-Type and Cookie are never in the map.
C17_CopiedIffAuthName ==
    fPc = "done" =>
        /\ \A i \in 1..Len(fIn) :
              Copied(i) <=> (IsAuthName(fIn[i][1])
                             /\ ~(ToLowerCase(fIn[i][1]) = "authorization" /\ Superseded(i)))
        /\ \A k \in DOMAIN fOut.headers : ToLowerCase(k) \notin {"content-type", "cookie"}

\* a token header is copied next to a content-token header that is not
C17_Witness ==
    /\ fPc = "done"
    /\ fIn = << <<"x-access-token", "v-x-access-token">>,
                <<"X-Content-Token", "v-X-Content-Token">> >>
    /\ fOut.headers = Put(EmptyMap, "x-access-token", "v-x-access-token")

\* the entry's value is stored under the entry's own name
StoredAsSpelled(i) ==
    /\ fIn[i][1] \in DOMAIN fOut.headers
    /\ fOut.headers[fIn[i][1]] = fIn[i][2]

\* C18 as stated: every copied header is stored under its key exactly as
\* spelled in the input, authorization included.
C18_KeysKeepInputSpelling ==
    fPc = "done" => \A i \in 1..Len(fIn) : Copied(i) => StoredAsSpelled(i)

\* C18: every copied header other than authorization is stored under its
\* key exactly as spelled in the input; an authorization header, in any
\* casing, is stored under the key Authorization.
C18_KeysKeepInputSpellingButAuthorization ==
    fPc = "done" =>
        /\ \A i \in 1..Len(fIn) :
              Copied(i) =>
                  IF ToLowerCase(fIn[i][1]) = "authorization"
                  THEN /\ "Authorization" \in DOMAIN fOut.headers
                       /\ fOut.headers["Authorization"] = fIn[i][2]
                  ELSE StoredAsSpelled(i)
        /\ DOMAIN fOut.headers \subseteq {"Authorization"} \cup {fIn[i][1] : i \in 1..Len(fIn)}

\* a lower-case authorization header next to a mixed-case platform header
C18_Witness ==
    /\ fPc = "done"
    /\ fIn = << <<"authorization", "v-authorization">>, <<"X-FB-LSD", "v-X-FB-LSD">> >>
    /\ DOMAIN fOut.headers = {"Authorization", "X-FB-LSD"}

----------------------------------------------------------------------------
(* C19: the cookies extractAuth parses *)

\* the trimmed ';'-separated segments of every Cookie header, in order
RECURSIVE CookieSegmentsOf(_)
CookieSegmentsOf(entries) ==
    IF entries = <<>> THEN <<>>
    ELSE (IF ToLowerCase(Head(entries)[1]) = "cookie"
          THEN LET pieces == Split(Head(entries)[2], ";")
               IN  [i \in 1..Len(pieces) |-> Trim(pieces[i])]
          ELSE <<>>)
         \o CookieSegmentsOf(Tail(entries))

\* the text before the first '=' and the text after it
SegmentName(seg)  == Trim(SliceTo(seg, IndexOf(seg, "=")))
SegmentValue(seg) == Trim(SliceFrom(seg, IndexOf(seg, "=") + 1))

\* C19: the Cookie header is split on ';'; each trimmed segment with a name
\* before its first '=' contributes the entry name -> everything after that
\* '=', later segments of one name overwrite earlier ones, and a segment
\* without '=' is skipped and contributes no entry.
C19_CookieSegmentsParsed ==
    fPc = "done" =>
        LET segs  == CookieSegmentsOf(fIn)
            named == {i \in 1..Len(segs) :
                         Includes(segs[i], "=") /\ SegmentName(segs[i]) # ""}
        IN  /\ DOMAIN fOut.cookies = {SegmentName(segs[i]) : i \in named}
            /\ \A i \in named :
                  (\A j \in named : j > i => SegmentName(segs[j]) # SegmentName(segs[i]))
                  => fOut.cookies[SegmentName(segs[i])] = SegmentValue(segs[i])

----------------------------------------------------------------------------
(* C20: custom header strings *)

\* the key and the value of a header string that has a colon
CustomKey(h)   == Trim(Head(Split(h, ":")))
CustomValue(h) == Trim(Join(Tail(Split(h, ":")), ":"))

\* C20: each header string is split at its first colon into a key and a
\* value, both trimmed, colons after the first staying in the value; a
\* string without a colon is skipped; of several strings with one key the
\* last one's value is kept.
C20_CustomHeadersSplitAtFirstColon ==
    fPc = "done" =>
        LET withColon == {i \in 1..Len(fIn) : Includes(fIn[i], ":")}
        IN  /\ DOMAIN fOut = {CustomKey(fIn[i]) : i \in withColon}
            /\ \A i \in withColon :
                  (\A j \in withColon : j > i => CustomKey(fIn[j]) # CustomKey(fIn[i]))
                  => fOut[CustomKey(fIn[i])] = CustomValue(fIn[i])

\* a value with colons of its own, and a string without a colon
C20_Witness ==
    /\ fPc = "done"
    /\ fIn = <<"Referer: https://x.com/a?b=c", "NoColonHere">>
    /\ fOut = Put(EmptyMap, "Referer", "https://x.com/a?b=c")

----------------------------------------------------------------------------
(* C21: the argument checks of the http subcommand *)

\* http() was never entered: no session file read, nothing sent or printed
HttpNeverCalled ==
    /\ hPc \in {"cli", "exited"}
    /\ hRequests = <<>>
    /\ hRes = EmptyMap
    /\ hStdout = <<>>
    /\ hSaved = <<>>
    /\ hError = ""

\* C21: without a URL the CLI exits with code 1 and the message "URL is
\* required", also when the session option is missing too; with a URL and
\* without a session option it exits with code 1 and "Session file is
\* required"; in both cases http() is never entered, so no session file is
\* read and no request is made.
C21_ArgumentsCheckedBeforeIO ==
    /\ hOpts.url = "" =>
          /\ HttpNeverCalled
          /\ hPc = "exited" =>
                /\ hExit = 1
                /\ Len(hStderr) = 1
                /\ Includes(hStderr[1], "URL is required")
    /\ (hOpts.url # "" /\ hSession = NoSessionOption) =>
          /\ HttpNeverCalled
          /\ hPc = "exited" =>
                /\ hExit = 1
                /\ Includes(hStderr[1], "Session file is required")
    /\ hPc = "exited" => (hOpts.url = "" \/ hSession = NoSessionOption)

\* neither a URL nor a session option: the URL message is the one printed
C21_Witness ==
    /\ hOpts.url = ""
    /\ hSession = NoSessionOption
    /\ hPc = "exited"
    /\ hExit = 1
    /\ hStderr = <<"Error: URL is required.">>

----------------------------------------------------------------------------
(* C22: the domain of the capture target *)

\* C22: the domain is the target's hostname with a leading "www." removed
\* and nothing else changed; a hostname that does not start with "www." is
\* kept verbatim; the default output directory is named after it.
C22_DomainStripsLeadingWww ==
    rPc \notin {"idle", "start"} =>
        LET hostname == UrlHostname(rOpts.url)
        IN  /\ rDomain = IF StartsWith(hostname, "www.")
                         THEN SliceFrom(hostname, Len("www."))
                         ELSE hostname
            /\ rOpts.outputDir = "" => rOutputDir = "peek-api-" \o rDomain

----------------------------------------------------------------------------
(* C23, C24: the groups of the report *)

\* the non-empty segments of a path, read off character by character
RECURSIVE SegmentsOf(_)
SegmentsOf(p) ==
    IF p = "" THEN <<>>
    ELSE IF CharAt(p, 1) = "/" THEN SegmentsOf(SliceFrom(p, 1))
    ELSE LET i == IndexOf(p, "/")
         IN  IF i = -1 THEN <<p>> ELSE <<SliceTo(p, i)>> \o SegmentsOf(SliceFrom(p, i))

\* "/" followed by the first three segments joined by "/"
FirstThreeSegments(p) ==
    LET segs == SegmentsOf(p)
    IN  CASE Len(segs) = 0 -> "/"
          [] Len(segs) = 1 -> "/" \o segs[1]
          [] Len(segs) = 2 -> "/" \o segs[1] \o "/" \o segs[2]
          [] OTHER         -> "/" \o segs[1] \o "/" \o segs[2] \o "/" \o segs[3]

\* the positions at which an endpoint occurs in a group
PlacesIn(group, endpoint) == {j \in 1..Len(group) : group[j] = endpoint}

\* C23: grouping partitions the catalog: every captured endpoint is in the
\* group keyed by "/" and the first three non-empty segments of its path,
\* once, and in no other group; a group holds nothing but captured
\* endpoints, in capture order; the catalog written out is the catalog.
C23_GroupingPartitionsCatalog ==
    rGrouped # EmptyMap =>
        /\ \A i \in 1..Len(capturedRequests) :
              LET e == capturedRequests[i]
                  k == FirstThreeSegments(e.path)
              IN  /\ k \in DOMAIN rGrouped
                  /\ Cardinality(PlacesIn(rGrouped[k], e)) = 1
                  /\ \A o \in DOMAIN rGrouped \ {k} : PlacesIn(rGrouped[o], e) = {}
        /\ \A k \in DOMAIN rGrouped :
              /\ rGrouped[k] # <<>>
              /\ \A j \in 1..Len(rGrouped[k]) :
                    \E i \in 1..Len(capturedRequests) : capturedRequests[i] = rGrouped[k][j]
              /\ \A j1, j2 \in 1..Len(rGrouped[k]) :
                    j1 < j2 => rGrouped[k][j1].timestamp < rGrouped[k][j2].timestamp
        /\ rPc = "done" => rFiles[rOutputDir \o "/endpoints.json"] = capturedRequests

\* GET and POST of one path share a group; a path of four segments is in
\* the group of its first three
C23_Witness ==
    /\ rPc = "done"
    /\ DOMAIN rGrouped = {"/api/feed", "/api/v1/users"}
    /\ Len(rGrouped["/api/feed"]) = 2
    /\ rGrouped["/api/feed"][1].method # rGrouped["/api/feed"][2].method
    /\ rGrouped["/api/v1/users"][1].path = "/api/v1/users/42"

\* C24: the report lists the groups in ascending lexicographic order of
\* their base-path strings.
C24_GroupsInLexicographicOrder ==
    \A i, j \in 1..Len(rReport) :
        i < j => StringLess(rReport[i].basePath, rReport[j].basePath)

\* a step that delivers a request event the listener ignores: one that
\* fails classification, or one whose "method path" key is already seen
C25_IgnoredStep ==
    (/\ Len(events') = Len(events) + 1
     /\ LET request == events'[Len(events')]
        IN  \/ ~isApiRequest(request.url, request.resourceType)
            \/ (request.method \o " " \o UrlPathname(request.url)) \in seenKeys)
    => /\ capturedRequests' = capturedRequests
       /\ seenKeys' = seenKeys
       /\ allAuthHeaders' = allAuthHeaders
       /\ allCookies' = allCookies

\* C25: a request event that fails classification, or whose "method path"
\* key is already in the seen set, leaves the captured-endpoint list, the
\* seen-key set and the accumulated auth headers and cookies as they were.
C25_IgnoredEventChangesNothing == [][C25_IgnoredStep]_vars

C25_Witness ==
    /\ Len(events) = 3
    /\ Len(capturedRequests) = 1
    /\ Cardinality(seenKeys) = 1
    /\ \E i, j \in 1..3 :
          /\ i # j
          /\ ~Classified(events[i])
          /\ extractAuth(events[i].headers).headers # EmptyMap
          /\ Classified(events[j])
          /\ events[j] # events[1]
          /\ PairOfRequest(events[j]) = PairOfRequest(events[1])
          /\ extractAuth(events[j].headers).headers # extractAuth(events[1].headers).headers

\* number of characters of s that are in the set chars
RECURSIVE CountIn(_, _)
CountIn(s, chars) ==
    IF s = "" THEN 0
    ELSE (IF CharAt(s, 1) \in chars THEN 1 ELSE 0) + CountIn(SliceFrom(s, 1), chars)

\* nesting depth at the end of the first n lines
RECURSIVE DepthAfter(_, _)
DepthAfter(lines, n) ==
    IF n = 0 THEN 0
    ELSE DepthAfter(lines, n - 1)
         + CountIn(lines[n], {"[", "{"}) - CountIn(lines[n], {"]", "}"})

\* every line of text is indented by two blanks per level of nesting, a
\* closing bracket standing one level out
TwoSpaceIndented(text) ==
    LET lines == Split(text, "\n")
    IN  \A i \in 1..Len(lines) :
            LET line   == lines[i]
                closes == TrimStart(line) # "" /\ CharAt(TrimStart(line), 1) \in {"]", "}"}
            IN  Len(line) - Len(TrimStart(line))
                    = 2 * (DepthAfter(lines, i - 1) - (IF closes THEN 1 ELSE 0))

\* C26: formatJson returns the two-space pretty-printed serialization of the
\* parsed value when the body is JSON and the body itself when it is not;
\* formatting the result again changes nothing; a body whose Content-Type
\* does not contain "json" is printed and saved untouched.
C26_FormatJsonTotalIdempotentJsonOnly ==
    /\ fPc \in {"once", "twice"} =>
          IF JsonParse(fIn.body).ok
          THEN /\ JsonParse(fOut[1]).ok
               /\ JsonParse(fOut[1]).value = JsonParse(fIn.body).value
               /\ TwoSpaceIndented(fOut[1])
               /\ fIn.body = "{\"ok\":true}" => fOut[1] = "{\n  \"ok\": true\n}"
               /\ fIn.body = "[1, [2,{\"a\":null}]]"
                     => fOut[1] = "[\n  1,\n  [\n    2,\n    {\n      \"a\": null\n    }\n  ]\n]"
               /\ fIn.body = "42" => fOut[1] = "42"
          ELSE fOut[1] = fIn.body
    /\ fPc = "twice" => fOut[2] = fOut[1]
    /\ (fPc = "shown" /\ ~Includes(fIn.contentType, "json"))
          => fOut[1] = fIn.body /\ fOut[2] = fIn.body

C26_Witness ==
    /\ fPc = "twice"
    /\ JsonParse(fIn.body).ok
    /\ fOut[1] # fIn.body
    /\ Len(Split(fOut[1], "\n")) > 5
    /\ fOut[2] = fOut[1]

\* the request invocation i sends when it is the only one in its process
RequestAlone(i) == BuildRequest(pOpts[i], loadSession(SessionView(pFile)))

\* C27: the PLATFORM_HEADERS object stays as declared, the session an
\* invocation loaded stays what loadSession gave, and every invocation, in
\* whatever order the invocations and their responses run, sends the request
\* (method, URL, headers, body) it sends when it runs alone.
C27_InvocationsShareNothing ==
    /\ pPc # <<>> => pTable = PLATFORM_HEADERS
    /\ \A i \in DOMAIN pPc :
          pPc[i] # "start" =>
              /\ pLoaded[i] = loadSession(SessionView(pFile))
              /\ pRequests[i] = RequestAlone(i)

C27_Witness ==
    /\ pPc = <<"resolved", "pending">>
    /\ pOpts[1].url = pOpts[2].url
    /\ "X-IG-App-ID" \in DOMAIN parseCustomHeaders(pOpts[1].headers)
    /\ pRequests[1].headers["X-IG-App-ID"] = "1"
    /\ pOpts[2].headers = <<>>
    /\ pRequests[2].headers["X-IG-App-ID"] = "936619743392459"
    /\ pRequests[2].headers["Cookie"] = pLoaded[1].cookieStr

\* the positions of a list that hold the first record of their
\* (method, URL pathname) pair
FirstOfPair(endpoints) ==
    {i \in 1..Len(endpoints) :
        \A j \in 1..(i - 1) : PairOfRequest(endpoints[j]) # PairOfRequest(endpoints[i])}

\* result is the subsequence of endpoints at the positions in keep
IsSubsequenceAt(result, endpoints, keep) ==
    /\ Len(result) = Cardinality(keep)
    /\ \A i \in keep :
          result[Cardinality({j \in keep : j <= i})] = endpoints[i]

\* C28: dedupEndpoints returns, in the original order, the first record of
\* each (method, URL pathname) pair; these are the records the listener
\* keeps when handed the same requests in that order; applied to its own
\* result it returns that result.
C28_DedupEndpointsMatchesListener ==
    /\ fPc \in {"once", "twice"} =>
          /\ IsSubsequenceAt(fOut[1], fIn, FirstOfPair(fIn))
          /\ fOut[1] = ListenerLoop(fIn, {}, <<>>)
    /\ fPc = "twice" => fOut[2] = fOut[1]

C28_Witness ==
    /\ fPc = "twice"
    /\ Len(fIn) = 3
    /\ Len(fOut[1]) = 2
    /\ fOut[1][1] = fIn[1]
    /\ fOut[1][2] = fIn[3]
    /\ fIn[2] # fIn[1]
    /\ fOut[2] = fOut[1]

\* some additional page failed to load
SomePageFailed == \E k \in 1..Len(rOutcomes) : rOutcomes[k] = "failed"

\* the URLs of all the additional pages, in the order given
AllPageUrls == [k \in 1..Len(rOpts.additionalPages) |-> PageUrl(rOpts, rOpts.additionalPages[k])]

\* once a page has failed to load, the run is still going through the
\* pages or is over with every page visited; it ends rejected only by the
\* error of writing the output, and where it ends normally the browser is
\* closed and the three files hold what was captured
C29_AfterPageFailure ==
    SomePageFailed =>
        /\ rPc \in {"page", "done", "failed"}
        /\ rPc \in {"done", "failed"} =>
              /\ rVisits = AllPageUrls
              /\ Len(rOutcomes) = Len(rVisits)
        /\ rPc = "failed" =>
              /\ rError = "EACCES: permission denied, mkdir"
              /\ capturedRequests # <<>>
        /\ rPc = "done" =>
              /\ rBrowser = "closed"
              /\ IF capturedRequests = <<>>
                 THEN rFiles = EmptyMap
                 ELSE /\ DOMAIN rFiles = {rOutputDir \o "/CAPTURE.md", rOutputDir \o "/auth.json",
                                          rOutputDir \o "/endpoints.json"}
                      /\ rFiles[rOutputDir \o "/endpoints.json"] = capturedRequests

\* a step in which a page fails to load keeps every captured endpoint and
\* goes on to the next page, or to the end of the run
C29_PageFailureStep ==
    (Len(rOutcomes') = Len(rOutcomes) + 1 /\ rOutcomes'[Len(rOutcomes')] = "failed")
    => /\ capturedRequests' = capturedRequests
       /\ rPc = "page"
       /\ IF Len(rVisits) < Len(rOpts.additionalPages)
          THEN rPc' = "page" /\ Len(rVisits') = Len(rVisits) + 1
          ELSE rPc' \in {"done", "failed"}

\* C29: a failure to load an additional page does not end the run: the
\* remaining pages are still visited in the given order, the captured
\* endpoints are kept, and the run goes to its end, with the report written
\* when an endpoint was captured and the browser closed, unless writing the
\* output itself fails.
C29_PageFailureDoesNotAbort ==
    [](C29_AfterPageFailure) /\ [][C29_PageFailureStep]_vars

C29_Witness ==
    /\ rPc = "done"
    /\ rOutcomes = <<"failed", "ok">>
    /\ Len(rVisits) = 2
    /\ Len(capturedRequests) >= 2
    /\ rFiles # EmptyMap
    /\ rBrowser = "closed"

\* C30: a run that has launched or connected to a browser and is over,
\* normally or by an exception, has closed the browser.
C30_BrowserClosedWhenOver ==
    rPc \in {"done", "failed"} => rBrowser = "closed"

====
